---- MODULE Spec2Model ----
(***************************************************************************)
(* Model of google-translate-universal: the configuration catalog, the     *)
(* planner generateTranslateConfigs, the attempt executor                  *)
(* tryTranslateWithConfig and the resolver loop translate                  *)
(* (src/src/translate.ts), with the value extractor getValue               *)
(* (src/src/utils.ts).                                                     *)
(*                                                                         *)
(* TLA+ strings are ASCII, so the program's Chinese messages are written   *)
(* in English here; every message keeps the interpolated values of the     *)
(* source in the same places.                                              *)
(***************************************************************************)
EXTENDS Integers, Sequences, FiniteSets, TLC

VARIABLES
    ALL_CONFIGS_CACHE,  \* translate.ts:20  the catalog, built once at module load
    pc,                 \* position of the invocation that is running
    text,               \* translate's first argument
    from,               \* options.from after defaulting ('auto')
    to,                 \* options.to
    preferredConfig,    \* options.preferredConfig / 1st argument of the planner
    randomizeAll,       \* options.randomizeAll    / 2nd argument of the planner
    configs,            \* translate.ts:312 the plan of this invocation
    i,                  \* translate.ts:324 loop index (0-based, as in the source)
    errors,             \* translate.ts:313 the failure list of this invocation
    remote,             \* how the remote service fails during this invocation
    calls,              \* history: the outbound calls issued, in order, with their responses
    outcome,            \* what the invocation returned or threw
    suspended,          \* the other translate invocations of the program, each
                        \* with its own locals, while they are not running
    lookup,             \* the last direct getValue call: arguments and result
    verbose,            \* options.verbose after defaulting (false)
    listeners,          \* utils.ts:6  Logger.listeners of the exported logger
    log,                \* history: the calls of the logger's members, in order
    handler             \* the handleTranslateRequest call of the program

vars == <<ALL_CONFIGS_CACHE, pc, text, from, to, preferredConfig, randomizeAll,
          configs, i, errors, remote, calls, outcome, suspended, lookup,
          verbose, listeners, log, handler>>

-----------------------------------------------------------------------------
(* Bounds of the model *)

\* How many of the base URLs other than translate-pa.googleapis.com the
\* modelled build lists (the source lists 4; they are all handled alike).
NumOtherUrls == 1

\* In how many iterations of one shuffle Math.random() may draw an index j
\* other than i, so that the iteration exchanges two different elements.
MaxSwaps == 1

\* How many translate invocations may be under way at the same time.
MaxInvocations == 2

\* How many calls of the logger's members the program's user makes.
MaxLoggerCalls == 3

\* How many characters the text of a request to the single-field host has at
\* most.
MaxTextLen == 3

\* Up to how many catalog entries the orderings of a plan are enumerated in
\* full (an array of n entries has n! orderings).
MaxOrdered == 5

-----------------------------------------------------------------------------
(* JavaScript values *)

\* A JSON-like value is a record [t, v]: t is its type tag.
JV(t, v) == [t |-> t, v |-> v]
JNull == JV("null", 0)
JUndefined == JV("undefined", 0)
JStr(s) == JV("str", s)
JNum(n) == JV("num", n)
JArr(s) == JV("arr", s)
\* An object: v is a function from its own keys to values.
JObj(f) == JV("obj", f)
\* The outcome of an expression that threw a TypeError with this message.
JThrow(message) == JV("throw", message)

\* An absent field of a (partial) configuration object.
Undefined == "<undefined>"

\* JavaScript truthiness (ToBoolean) of a JSON-like value.
Truthy(x) ==
    CASE x.t = "null" -> FALSE
      [] x.t = "undefined" -> FALSE
      [] x.t = "str" -> x.v # ""
      [] x.t = "num" -> x.v # 0
      [] x.t = "bool" -> x.v
      [] OTHER -> TRUE

\* a || b
OrElse(a, b) == IF Truthy(a) THEN a ELSE b

\* Truthiness of a string-or-absent field such as config.baseUrl, text, to.
TruthyField(s) == s # Undefined /\ s # ""

-----------------------------------------------------------------------------
(* The configuration catalog: translate.ts:5-48 *)

\* translate.ts:11, the host of the single-field configuration
TRANSLATE_PA == "translate-pa.googleapis.com"

\* translate.ts:6-12 as written in the source
SOURCE_BASE_URLS ==
    <<"translate.googleapis.com",
      "translate.google.com",
      "clients5.google.com",
      "translate.google.so",
      TRANSLATE_PA>>

\* The base URL list of the modelled build: the first NumOtherUrls ordinary
\* hosts of the source's list, then translate-pa.googleapis.com (which the
\* source lists last as well).
GOOGLE_TRANSLATE_BASE_URLS ==
    LET others == SelectSeq(SOURCE_BASE_URLS, LAMBDA url : url # TRANSLATE_PA)
        n == IF NumOtherUrls < Len(others) THEN NumOtherUrls ELSE Len(others)
    IN  SubSeq(others, 1, n) \o <<TRANSLATE_PA>>

\* translate.ts:15
GOOGLE_TRANSLATE_ENDPOINTS == <<"single", "t">>
\* translate.ts:17
GOOGLE_TRANSLATE_CLIENTS == <<"gtx", "dict-chrome-ex">>

\* array.includes(x)
Includes(arr, x) == \E k \in 1..Len(arr) : arr[k] = x

\* A TranslateConfig object; an absent field reads as Undefined.
Config(baseUrl, endpoint, client, isTranslatePa) ==
    [baseUrl |-> baseUrl, endpoint |-> endpoint, client |-> client,
     isTranslatePa |-> isTranslatePa]

\* translate.ts:24-27 and 105-108, 126-129: the single-field configuration
PaConfig == Config(TRANSLATE_PA, Undefined, Undefined, TRUE)

\* BuildAllConfigs without the filter of translate.ts:30-32: the host of the
\* single-field configuration is combined with the endpoints and clients too.
BuildAllConfigs_unfiltered ==
    LET nE == Len(GOOGLE_TRANSLATE_ENDPOINTS)
        nC == Len(GOOGLE_TRANSLATE_CLIENTS)
        pushed(k) == Config(GOOGLE_TRANSLATE_BASE_URLS[(k \div (nE * nC)) + 1],
                            GOOGLE_TRANSLATE_ENDPOINTS[((k \div nC) % nE) + 1],
                            GOOGLE_TRANSLATE_CLIENTS[(k % nC) + 1],
                            FALSE)
    IN  <<PaConfig>>
        \o [k \in 1..(Len(GOOGLE_TRANSLATE_BASE_URLS) * nE * nC) |-> pushed(k - 1)]

\* translate.ts:20-48: the value the IIFE returns
BuildAllConfigs ==
    LET otherUrls == SelectSeq(GOOGLE_TRANSLATE_BASE_URLS,
                               LAMBDA url : url # TRANSLATE_PA)
        nE == Len(GOOGLE_TRANSLATE_ENDPOINTS)
        nC == Len(GOOGLE_TRANSLATE_CLIENTS)
        \* the k-th push of the three nested loops, k = 0, 1, ...
        pushed(k) == Config(otherUrls[(k \div (nE * nC)) + 1],
                            GOOGLE_TRANSLATE_ENDPOINTS[((k \div nC) % nE) + 1],
                            GOOGLE_TRANSLATE_CLIENTS[(k % nC) + 1],
                            FALSE)
    IN  <<PaConfig>> \o [k \in 1..(Len(otherUrls) * nE * nC) |-> pushed(k - 1)]

\* translate.ts:5-48: the number of entries the IIFE pushes for the base URL
\* list as written in the source
SourceCatalogLength ==
    1 + Len(SelectSeq(SOURCE_BASE_URLS, LAMBDA url : url # TRANSLATE_PA))
            * Len(GOOGLE_TRANSLATE_ENDPOINTS) * Len(GOOGLE_TRANSLATE_CLIENTS)

-----------------------------------------------------------------------------
(* The planner: translate.ts:55-154 *)

\* A caller-supplied preferredConfig.  kind is what typeof/truthiness see:
\* "null" (absent, null or undefined), "object", or "string" (a truthy
\* non-object).  isTranslatePa is "true", "false" or Undefined.
Preferred(kind, baseUrl, endpoint, client, isTranslatePa) ==
    [kind |-> kind, baseUrl |-> baseUrl, endpoint |-> endpoint,
     client |-> client, isTranslatePa |-> isTranslatePa]

NoPreferred == Preferred("null", Undefined, Undefined, Undefined, Undefined)

\* isValidConfig without the endpoint check of translate.ts:70-73.
isValidConfig_anyEndpoint(config) ==
    IF config.kind # "object" THEN FALSE
    ELSE IF ~TruthyField(config.baseUrl)
            \/ ~Includes(GOOGLE_TRANSLATE_BASE_URLS, config.baseUrl) THEN FALSE
    ELSE TRUE

\* translate.ts:55-76
isValidConfig(config) ==
    IF config.kind # "object" THEN FALSE
    ELSE IF ~TruthyField(config.baseUrl)
            \/ ~Includes(GOOGLE_TRANSLATE_BASE_URLS, config.baseUrl) THEN FALSE
    ELSE IF config.baseUrl = TRANSLATE_PA THEN TRUE
    ELSE IF ~TruthyField(config.endpoint)
            \/ ~Includes(GOOGLE_TRANSLATE_ENDPOINTS, config.endpoint) THEN FALSE
    ELSE TRUE

\* The outcomes of the Math.random() calls of one shuffle over m iterations
\* of which at most k exchange two different elements: a sequence d in which
\* d[idx] in 0..idx is the index j drawn at i = idx (translate.ts:146,
\* j = floor(random * (i + 1)) with random in [0, 1)).
RECURSIVE DrawsWithin(_, _)
DrawsWithin(m, k) ==
    IF m <= 0 THEN {<< >>}
    ELSE {Append(d, m) : d \in DrawsWithin(m - 1, k)}
         \cup (IF k > 0
               THEN {Append(d, j) : d \in DrawsWithin(m - 1, k - 1), j \in 0..(m - 1)}
               ELSE {})

\* The draws of one shuffle of an array of length n.
Draws(n) == DrawsWithin(n - 1, MaxSwaps)

\* translate.ts:147-149: exchange the elements at 0-based indices a and b
Swap(arr, a, b) ==
    [k \in 1..Len(arr) |->
        IF k = a + 1 THEN arr[b + 1] ELSE IF k = b + 1 THEN arr[a + 1] ELSE arr[k]]

\* translate.ts:145-150: the loop from index idx down to 1
RECURSIVE ShuffleFrom(_, _, _)
ShuffleFrom(arr, idx, d) ==
    IF idx > 0 THEN ShuffleFrom(Swap(arr, idx, d[idx]), idx - 1, d) ELSE arr

\* OtherConfigs with a filter that compares the host only.
OtherConfigs_hostOnly(cache, placed) ==
    SelectSeq(cache, LAMBDA config :
        ~\E k \in 1..Len(placed) : placed[k].baseUrl = config.baseUrl)

\* translate.ts:133-141: the catalog entries not already placed in placed
OtherConfigs(cache, placed) ==
    SelectSeq(cache, LAMBDA config :
        ~\E k \in 1..Len(placed) :
            /\ placed[k].baseUrl = config.baseUrl
            /\ placed[k].endpoint = config.endpoint
            /\ placed[k].client = config.client
            /\ placed[k].isTranslatePa = config.isTranslatePa)

\* UseRandomOrder without the assignment of translate.ts:101.
UseRandomOrder_ignoresInvalid(preferred, randomize) == randomize

\* translate.ts:91-101: the final value of useRandomOrder
UseRandomOrder(preferred, randomize) ==
    IF preferred.kind # "null" /\ ~randomize
    THEN ~isValidConfig(preferred)
    ELSE randomize

\* PlacedFirst without the default of translate.ts:125-130.
PlacedFirst_noDefault(preferred, randomize) ==
    IF preferred.kind # "null" /\ ~randomize /\ isValidConfig(preferred)
    THEN IF preferred.baseUrl = TRANSLATE_PA
         THEN <<PaConfig>>
         ELSE <<Config(preferred.baseUrl, preferred.endpoint,
                       GOOGLE_TRANSLATE_CLIENTS[1], FALSE)>>
    ELSE << >>

\* PlacedFirst pinning the first endpoint instead of the preferred one.
PlacedFirst_firstEndpoint(preferred, randomize) ==
    LET pinned ==
            IF preferred.kind # "null" /\ ~randomize /\ isValidConfig(preferred)
            THEN IF preferred.baseUrl = TRANSLATE_PA
                 THEN <<PaConfig>>
                 ELSE <<Config(preferred.baseUrl, GOOGLE_TRANSLATE_ENDPOINTS[1],
                               GOOGLE_TRANSLATE_CLIENTS[1], FALSE)>>
            ELSE << >>
    IN  IF ~UseRandomOrder(preferred, randomize) /\ Len(pinned) = 0
        THEN <<PaConfig>>
        ELSE pinned

\* PlacedFirst without the `!randomizeAll` of translate.ts:94.
PlacedFirst_pinsWhenRandom(preferred, randomize) ==
    LET pinned ==
            IF preferred.kind # "null" /\ isValidConfig(preferred)
            THEN IF preferred.baseUrl = TRANSLATE_PA
                 THEN <<PaConfig>>
                 ELSE <<Config(preferred.baseUrl, preferred.endpoint,
                               GOOGLE_TRANSLATE_CLIENTS[1], FALSE)>>
            ELSE << >>
    IN  IF ~UseRandomOrder(preferred, randomize) /\ Len(pinned) = 0
        THEN <<PaConfig>>
        ELSE pinned

\* PlacedFirst copying the client and the flag of the preferred configuration
\* instead of writing its own (translate.ts:112-113).
PlacedFirst_copiesClient(preferred, randomize) ==
    LET pinned ==
            IF preferred.kind # "null" /\ ~randomize /\ isValidConfig(preferred)
            THEN IF preferred.baseUrl = TRANSLATE_PA
                 THEN <<PaConfig>>
                 ELSE <<Config(preferred.baseUrl, preferred.endpoint,
                               preferred.client, preferred.isTranslatePa = "true")>>
            ELSE << >>
    IN  IF ~UseRandomOrder(preferred, randomize) /\ Len(pinned) = 0
        THEN <<PaConfig>>
        ELSE pinned

\* translate.ts:90-130: the entries pushed before the catalog is consulted
PlacedFirst(preferred, randomize) ==
    LET pinned ==
            IF preferred.kind # "null" /\ ~randomize /\ isValidConfig(preferred)
            THEN IF preferred.baseUrl = TRANSLATE_PA
                 THEN <<PaConfig>>
                 ELSE <<Config(preferred.baseUrl, preferred.endpoint,
                               GOOGLE_TRANSLATE_CLIENTS[1], FALSE)>>
            ELSE << >>
    IN  IF ~UseRandomOrder(preferred, randomize) /\ Len(pinned) = 0
        THEN <<PaConfig>>
        ELSE pinned

\* generateTranslateConfigs shuffling only when the order is to be random
\* (the condition of translate.ts:144 without `otherConfigs.length > 1`).
generateTranslateConfigs_shufflesOnlyRandom(cache, preferred, randomize, d) ==
    LET placed == PlacedFirst(preferred, randomize)
        otherConfigs == OtherConfigs(cache, placed)
        shuffled ==
            IF UseRandomOrder(preferred, randomize)
            THEN ShuffleFrom(otherConfigs, Len(otherConfigs) - 1, d)
            ELSE otherConfigs
    IN  placed \o shuffled

\* translate.ts:85-154 with the catalog cache and the random draws d made
\* explicit (d is read only when the shuffle runs)
generateTranslateConfigs(cache, preferred, randomize, d) ==
    LET placed == PlacedFirst(preferred, randomize)
        otherConfigs == OtherConfigs(cache, placed)
        shuffled ==
            IF UseRandomOrder(preferred, randomize) \/ Len(otherConfigs) > 1
            THEN ShuffleFrom(otherConfigs, Len(otherConfigs) - 1, d)
            ELSE otherConfigs
    IN  placed \o shuffled

\* CacheAfterPlan with a filter that hands back the catalog array itself when
\* it drops no entry, so that the loop of translate.ts:144-150 exchanges the
\* catalog's own elements.
CacheAfterPlan_sharedArray(cache, preferred, randomize, d) ==
    LET otherConfigs == OtherConfigs(cache, PlacedFirst(preferred, randomize))
    IN  IF otherConfigs = cache
           /\ (UseRandomOrder(preferred, randomize) \/ Len(otherConfigs) > 1)
        THEN ShuffleFrom(cache, Len(cache) - 1, d)
        ELSE cache

\* translate.ts:132-153: what ALL_CONFIGS_CACHE holds when the planner
\* returns.  Array.prototype.filter builds a new array (133), the loop of
\* 144-150 exchanges the elements of that new array, and the plan is a third
\* array (153); the catalog array is only read.
CacheAfterPlan(cache, preferred, randomize, d) == cache

\* The number of entries the shuffle of one planner call runs over.
ShuffleLen(cache, preferred, randomize) ==
    Len(OtherConfigs(cache, PlacedFirst(preferred, randomize)))

-----------------------------------------------------------------------------
(* The value extractor: utils.ts:71-116 *)

\* A path is a sequence of characters (one-character strings); a key is the
\* string a property is looked up by.

\* utils.ts:109: the TypeError of `key in result` for a primitive result
MsgInOperator == "Cannot use 'in' operator to search for a key in a primitive"

Digits == {"0", "1", "2", "3", "4", "5", "6", "7", "8", "9"}
DigitValue(c) == CHOOSE n \in 0..9 : ToString(n) = c

\* The string of a sequence of characters.
RECURSIVE Join(_)
Join(chars) == IF Len(chars) = 0 THEN "" ELSE Head(chars) \o Join(Tail(chars))

\* Number(key) of utils.ts:102 for a key made of digits.
RECURSIVE DigitsValue(_)
DigitsValue(chars) ==
    IF Len(chars) = 0 THEN 0
    ELSE 10 * DigitsValue(SubSeq(chars, 1, Len(chars) - 1))
         + DigitValue(chars[Len(chars)])

\* utils.ts:83, [^.\[\]]+ from position p: the last position of the longest
\* run of characters other than '.', '[' and ']' that starts at p (p - 1
\* when there is none).
RECURSIVE RunEnd(_, _)
RunEnd(path, p) ==
    IF p <= Len(path) /\ path[p] \notin {".", "[", "]"}
    THEN RunEnd(path, p + 1) ELSE p - 1

\* utils.ts:83, \d+ from position p: the last position of the longest run of
\* digits that starts at p (p - 1 when there is none).
RECURSIVE DigitsEnd(_, _)
DigitsEnd(path, p) ==
    IF p <= Len(path) /\ path[p] \in Digits
    THEN DigitsEnd(path, p + 1) ELSE p - 1

\* utils.ts:83, .*?" followed by \] from position p: the first position at
\* or after p that holds the quote qt and is followed by ']' (0 when there
\* is none).
RECURSIVE QuoteEnd(_, _, _)
QuoteEnd(path, p, qt) ==
    IF p + 1 > Len(path) THEN 0
    ELSE IF path[p] = qt /\ path[p + 1] = "]" THEN p
    ELSE QuoteEnd(path, p + 1, qt)

\* utils.ts:83: the last position of the match of the regular expression
\* that starts at position p, 0 when none starts there.
MatchEnd(path, p) ==
    IF path[p] \notin {".", "[", "]"} THEN RunEnd(path, p)
    ELSE IF path[p] = "[" /\ p < Len(path)
    THEN IF path[p + 1] \in Digits
         THEN LET q == DigitsEnd(path, p + 1)
              IN  IF q < Len(path) /\ path[q + 1] = "]" THEN q + 1 ELSE 0
         ELSE IF path[p + 1] \in {"\"", "'"}
         THEN LET r == QuoteEnd(path, p + 2, path[p + 1])
              IN  IF r > 0 THEN r + 1 ELSE 0
         ELSE 0
    ELSE 0

\* KeyOf leaving the quotes of a quoted key in place.
KeyOf_keepsQuotes(match) ==
    LET unbracketed ==
            IF match[1] = "[" THEN SubSeq(match, 2, Len(match) - 1) ELSE match
    IN  IF Len(unbracketed) > 0 /\ \A k \in 1..Len(unbracketed) : unbracketed[k] \in Digits
        THEN ToString(DigitsValue(unbracketed))
        ELSE Join(unbracketed)

\* utils.ts:87-103: the key of a match: brackets and quotes removed, a key
\* made of digits converted to a number (which a property lookup reads in
\* its canonical decimal form).
KeyOf(match) ==
    LET unbracketed ==
            IF match[1] = "[" THEN SubSeq(match, 2, Len(match) - 1) ELSE match
        first == unbracketed[1]
        last == unbracketed[Len(unbracketed)]
        key ==
            IF match[1] = "[" /\ Len(unbracketed) > 0
               /\ ((first = "\"" /\ last = "\"") \/ (first = "'" /\ last = "'"))
            THEN SubSeq(unbracketed, 2, Len(unbracketed) - 1)
            ELSE unbracketed
    IN  IF Len(key) > 0 /\ \A k \in 1..Len(key) : key[k] \in Digits
        THEN ToString(DigitsValue(key))
        ELSE Join(key)

\* utils.ts:86-104: the keys of the matches found from position p on
RECURSIVE ScanFrom(_, _)
ScanFrom(path, p) ==
    IF p > Len(path) THEN << >>
    ELSE LET e == MatchEnd(path, p)
         IN  IF e = 0 THEN ScanFrom(path, p + 1)
             ELSE <<KeyOf(SubSeq(path, p, e))>> \o ScanFrom(path, e + 1)

\* utils.ts:80-104: the key list of a path
ParsePath(path) == ScanFrom(path, 1)

\* The 0-based index an array is read at by key, -1 when key is no index of
\* the array.
IndexOf(result, key) ==
    IF \E n \in 0..(Len(result.v) - 1) : ToString(n) = key
    THEN CHOOSE n \in 0..(Len(result.v) - 1) : ToString(n) = key
    ELSE -1

\* utils.ts:109 `key in result` for an array or an object of JSON data (its
\* own indices and keys).
HasKey(result, key) ==
    CASE result.t = "arr" -> IndexOf(result, key) >= 0
      [] result.t = "obj" -> key \in DOMAIN result.v
      [] OTHER -> FALSE

\* utils.ts:112 result[key], for a key that HasKey found
At(result, key) ==
    IF result.t = "arr" THEN result.v[IndexOf(result, key) + 1] ELSE result.v[key]

\* utils.ts:108-115: the loop over the keys, from the k-th key on
RECURSIVE Descend(_, _, _, _)
Descend(result, keys, k, defaultValue) ==
    IF k > Len(keys)
    THEN IF result.t = "undefined" THEN defaultValue ELSE result
    ELSE IF result.t \in {"null", "undefined"} THEN defaultValue
    ELSE IF result.t \in {"str", "num", "bool"} THEN JThrow(MsgInOperator)
    ELSE IF ~HasKey(result, keys[k]) THEN defaultValue
    ELSE Descend(At(result, keys[k]), keys, k + 1, defaultValue)

\* No direct getValue call has been made.
NoLookup ==
    [called |-> FALSE, data |-> JUndefined, path |-> << >>,
     defaultValue |-> JUndefined, result |-> JUndefined]

\* utils.ts:71-116; the result is a JThrow when the call throws.
getValue(data, path, defaultValue) ==
    IF Len(path) = 0
    THEN IF data.t = "undefined" THEN defaultValue ELSE data
    ELSE Descend(data, ParsePath(path), 1, defaultValue)

\* The paths the executor passes: '[0]', '[1]', '[2]', '[1][0]'
PathIndex(n) == <<"[", ToString(n), "]">>
PathIndex2(m, n) == PathIndex(m) \o PathIndex(n)

-----------------------------------------------------------------------------
(* The attempt executor: translate.ts:165-278 *)

\* What the outbound call of an attempt resolves to: fetch rejecting
\* (kind "network_error"), or a response with a status whose json() yields
\* body, or rejects when body is Unparseable.
Response(kind, status, body) == [kind |-> kind, status |-> status, body |-> body]
Unparseable == JV("unparseable", 0)
NetworkError == Response("network_error", 0, JUndefined)

\* What an attempt produces: a TranslateResult (ok) or a thrown error with
\* its message.
Returned(t, sl, tl) ==
    [ok |-> TRUE, text |-> t, sourceLang |-> sl, targetLang |-> tl, message |-> ""]
Thrown(message) ==
    [ok |-> FALSE, text |-> JUndefined, sourceLang |-> JUndefined,
     targetLang |-> "", message |-> message]

MsgFetchFailed == "fetch failed"
MsgJsonSyntax == "Unexpected end of JSON input"
\* translate.ts:247: the TypeError of calling map on a value that has none
MsgNoMap == "(firstData || []).map is not a function"
\* translate.ts:269
MsgNoData == "no data returned"
\* translate.ts:226
MsgStatus(status, baseUrl) ==
    "request failed, status: " \o ToString(status) \o ", host: " \o baseUrl

\* String(x) / Array.prototype.join's conversion of an element
RECURSIVE JsToString(_)
JsToString(x) ==
    CASE x.t = "str" -> x.v
      [] x.t = "num" -> ToString(x.v)
      [] x.t = "bool" -> IF x.v THEN "true" ELSE "false"
      [] x.t = "arr" ->
            LET RECURSIVE joined(_)
                joined(k) ==
                    IF k > Len(x.v) THEN ""
                    ELSE (IF k > 1 THEN "," ELSE "")
                         \o (IF x.v[k].t \in {"null", "undefined"}
                             THEN "" ELSE JsToString(x.v[k]))
                         \o joined(k + 1)
            IN  joined(1)
      [] x.t = "obj" -> "[object Object]"
      [] OTHER -> ""

\* translate.ts:247: (firstData || []).map(item => getValue(item, '[0]', '') || '').join('')
\* The result is a JThrow when firstData has no map method or getValue
\* throws for an item.
SingleText(firstData) ==
    LET arr == IF Truthy(firstData) THEN firstData ELSE JArr(<< >>)
        item(k) == getValue(arr.v[k], PathIndex(0), JStr(""))
        RECURSIVE joined(_)
        joined(k) ==
            IF k > Len(arr.v) THEN ""
            ELSE JsToString(OrElse(item(k), JStr(""))) \o joined(k + 1)
    IN  IF arr.t # "arr" THEN JThrow(MsgNoMap)
        ELSE IF \E k \in 1..Len(arr.v) : item(k).t = "throw"
        THEN JThrow(MsgInOperator)
        ELSE JStr(joined(1))

\* translate.ts:237-241: text and sourceLang of the single-field format
PaFields(data, firstData, sourceLang) ==
    <<getValue(firstData, PathIndex(0), JStr("")),
      OrElse(getValue(data, PathIndex2(1, 0), JStr("")), JStr(sourceLang))>>

\* translate.ts:246-250: text and sourceLang of the 'single' format
SingleFields(data, firstData, sourceLang) ==
    <<SingleText(firstData),
      OrElse(getValue(data, PathIndex(2), JNull), JStr(sourceLang))>>

\* TFields reading firstData as an array whatever it is.
TFields_arrayOnly(data, firstData, sourceLang) ==
    <<OrElse(getValue(firstData, PathIndex(0), JStr("")), JStr("")),
      OrElse(getValue(firstData, PathIndex(1), JStr("")), JStr(sourceLang))>>

\* translate.ts:255-261: text and sourceLang of the 't' format
TFields(data, firstData, sourceLang) ==
    LET isArr == firstData.t = "arr" /\ Len(firstData.v) > 0
    IN  <<OrElse(IF isArr THEN getValue(firstData, PathIndex(0), JStr(""))
                 ELSE firstData, JStr("")),
          OrElse(IF isArr THEN getValue(firstData, PathIndex(1), JStr(""))
                 ELSE JStr(""), JStr(sourceLang))>>

\* ParseBody taking the result's targetLang from the language the body
\* reports, when it reports one, instead of the argument.
ParseBody_targetFromBody(config, data, sourceLang, targetLang) ==
    LET firstData == getValue(data, PathIndex(0), JStr(""))
        fields ==
            IF config.isTranslatePa THEN PaFields(data, firstData, sourceLang)
            ELSE IF config.endpoint = "single"
            THEN SingleFields(data, firstData, sourceLang)
            ELSE TFields(data, firstData, sourceLang)
    IN  IF fields[1].t = "throw" THEN Thrown(fields[1].v)
        ELSE IF fields[2].t = "throw" THEN Thrown(fields[2].v)
        ELSE Returned(fields[1], fields[2],
                      IF fields[2].t = "str" THEN fields[2].v ELSE targetLang)

\* translate.ts:232-263: the value returned for a parsed body that is a
\* non-empty array; a JThrow in a field stands for the TypeError thrown
\* while evaluating it, and the first one is the error of the attempt.
ParseBody(config, data, sourceLang, targetLang) ==
    LET firstData == getValue(data, PathIndex(0), JStr(""))
        fields ==
            IF config.isTranslatePa THEN PaFields(data, firstData, sourceLang)
            ELSE IF config.endpoint = "single"
            THEN SingleFields(data, firstData, sourceLang)
            ELSE TFields(data, firstData, sourceLang)
    IN  IF fields[1].t = "throw" THEN Thrown(fields[1].v)
        ELSE IF fields[2].t = "throw" THEN Thrown(fields[2].v)
        ELSE Returned(fields[1], fields[2], targetLang)

\* HandleBody without the `data.length` of translate.ts:232.
HandleBody_anyArray(config, data, sourceLang, targetLang) ==
    IF data.t = "arr"
    THEN IF config.isTranslatePa \/ config.endpoint \in {"single", "t"}
         THEN ParseBody(config, data, sourceLang, targetLang)
         ELSE Thrown(MsgNoData)
    ELSE Thrown(MsgNoData)

\* translate.ts:232-276: what the attempt makes of the parsed body
HandleBody(config, data, sourceLang, targetLang) ==
    IF data.t = "arr" /\ Len(data.v) > 0
    THEN IF config.isTranslatePa \/ config.endpoint \in {"single", "t"}
         THEN ParseBody(config, data, sourceLang, targetLang)
         ELSE Thrown(MsgNoData)
    ELSE Thrown(MsgNoData)

\* translate.ts:191: the request body for the single-field host, as the
\* sequence of its characters.  The template literal
\* `[[["${text}"], "${sourceLang}", "${targetLang}"], "wt_lib"]` writes the
\* three values between double quotes as they are.
RequestBody(txt, sourceLang, targetLang) ==
    <<"[", "[", "[", "\"">> \o txt
        \o <<"\"", "]", ",", " ", "\"">> \o sourceLang
        \o <<"\"", ",", " ", "\"">> \o targetLang
        \o <<"\"", "]", ",", " ", "\"", "w", "t", "_", "l", "i", "b", "\"", "]">>

\* translate.ts:193: the URL of the request to the single-field host
RequestUrl(config) == <<"https://", config.baseUrl, "/v1/translateHtml">>

\* translate.ts:165-278 given what the outbound call resolves to
tryTranslateWithConfig(config, sourceLang, targetLang, txt, response) ==
    IF response.kind = "network_error" THEN Thrown(MsgFetchFailed)
    ELSE IF response.status # 200 THEN Thrown(MsgStatus(response.status, config.baseUrl))
    ELSE IF response.body.t = "unparseable" THEN Thrown(MsgJsonSyntax)
    ELSE HandleBody(config, response.body, sourceLang, targetLang)

-----------------------------------------------------------------------------
(* The resolver loop: translate.ts:287-371 *)

\* translate.ts:301, 308
MsgMissing(param) == "missing required parameter: " \o param
\* MsgAttempt numbering the attempts from 0.
MsgAttempt_zeroBased(idx, config, errorMsg) ==
    "config" \o ToString(idx) \o "(" \o config.baseUrl \o "): " \o errorMsg

\* translate.ts:350
MsgAttempt(idx, config, errorMsg) ==
    "config" \o ToString(idx + 1) \o "(" \o config.baseUrl \o "): " \o errorMsg

\* errs.join('\n')
RECURSIVE JoinLines(_, _)
JoinLines(errs, k) ==
    IF k > Len(errs) THEN ""
    ELSE (IF k > 1 THEN "\n" ELSE "") \o errs[k] \o JoinLines(errs, k + 1)

\* translate.ts:364
MsgFinal(plan, errs) ==
    "all translate endpoints failed. tried " \o ToString(Len(plan))
        \o " configs:\n" \o JoinLines(errs, 1)

\* What translate gave its caller.
NoOutcome ==
    [kind |-> "none", text |-> JUndefined, sourceLang |-> JUndefined,
     targetLang |-> "", message |-> ""]
ResultOutcome(r) ==
    [kind |-> "result", text |-> r.text, sourceLang |-> r.sourceLang,
     targetLang |-> r.targetLang, message |-> ""]
ErrorOutcome(kind, message) ==
    [kind |-> kind, text |-> JUndefined, sourceLang |-> JUndefined,
     targetLang |-> "", message |-> message]

\* An outbound call of the history: the configuration it went to and what it
\* resolved to (Pending while it is in flight).
Pending == Response("pending", 0, JUndefined)
Call(config, response) == [config |-> config, response |-> response]

\* ValidationError without the check of the target language.
ValidationError_textOnly(t, tl) ==
    IF ~TruthyField(t) THEN MsgMissing("text") ELSE ""

\* translate.ts:296-309: the message of the validation error translate
\* throws for these arguments, "" when it throws none
ValidationError(t, tl) ==
    IF ~TruthyField(t) THEN MsgMissing("text")
    ELSE IF ~TruthyField(tl) THEN MsgMissing("to")
    ELSE ""

\* IssueCall going back to the configuration that has just failed.
IssueCall_retry(plan, idx) ==
    Call(plan[IF idx > 0 THEN idx ELSE 1], Pending)

\* translate.ts:325, 337: the outbound call issued at loop index idx
IssueCall(plan, idx) == Call(plan[idx + 1], Pending)

\* MoreRemain stopping one configuration early.
MoreRemain_early(plan, idx) == idx < Len(plan) - 2

\* translate.ts:324, 357: a configuration remains after loop index idx
MoreRemain(plan, idx) == idx < Len(plan) - 1

\* translate.ts:289: from = 'auto'
DefaultFrom(f) == IF f = Undefined THEN "auto" ELSE f

-----------------------------------------------------------------------------
(* The logger: utils.ts:5-61 *)

\* A value handed to logger.on: a function that returns ("returns"), a
\* function that throws whenever it is called ("throws"), or a value that is
\* no function ("not_a_function").
Callback(name, kind) == [name |-> name, kind |-> kind]
NoCallback == Callback("", "none")

\* What one logger.error / warn / info call of the program passes on: the
\* level and the arguments, written as one line.
Event(level, message) == [level |-> level, message |-> message]

\* The TypeError of calling a member the Logger class does not define.
MsgNotAFunction(member) == "logger." \o member \o " is not a function"
\* The error a throwing listener throws.
MsgListenerError == "listener failed"

\* utils.ts:12-16: the listener list after on(callback)
on(ls, callback) ==
    IF callback.kind \in {"returns", "throws"} THEN Append(ls, callback) ELSE ls

\* _emit without the try/catch of utils.ts:27-32: the exception of a
\* listener ends the forEach and leaves _emit.
RECURSIVE _emit_noCatch(_, _, _)
_emit_noCatch(ls, level, message) ==
    IF Len(ls) = 0 THEN [receivers |-> << >>, caught |-> 0, thrown |-> FALSE]
    ELSE IF Head(ls).kind = "throws"
    THEN [receivers |-> <<Head(ls)>>, caught |-> 0, thrown |-> TRUE]
    ELSE LET rest == _emit_noCatch(Tail(ls), level, message)
         IN  [receivers |-> <<Head(ls)>> \o rest.receivers,
              caught |-> rest.caught, thrown |-> rest.thrown]

\* utils.ts:24-34: the listeners of ls called with (level, message), in
\* order; how many of their exceptions the catch of line 29 took; whether an
\* exception leaves _emit.
RECURSIVE _emit(_, _, _)
_emit(ls, level, message) ==
    IF Len(ls) = 0 THEN [receivers |-> << >>, caught |-> 0, thrown |-> FALSE]
    ELSE LET rest == _emit(Tail(ls), level, message)
         IN  [receivers |-> <<Head(ls)>> \o rest.receivers,
              caught |-> (IF Head(ls).kind = "throws" THEN 1 ELSE 0) + rest.caught,
              thrown |-> rest.thrown]

\* An entry of the history of logger calls: the member called (op), its
\* argument, the listener list it found, and for error / warn / info the
\* message, the listeners called, the exceptions caught and whether one
\* left the call; at is the number of outbound calls the running invocation
\* had issued, direct whether the program's user made the call (the library
\* made it otherwise); result is what a registry member returned.
LogEntry(op, arg, message, at, direct, ls, emitted, result) ==
    [op |-> op, arg |-> arg, message |-> message, at |-> at, direct |-> direct,
     listeners |-> ls, receivers |-> emitted.receivers, caught |-> emitted.caught,
     thrown |-> emitted.thrown, result |-> result]

\* No listener is called by a registry member.
NotEmitted == [receivers |-> << >>, caught |-> 0, thrown |-> FALSE]

\* utils.ts:40-58: the entry of logger.error / warn / info(message)
LoggerCall(ls, event, at, direct) ==
    LogEntry(event.level, NoCallback, event.message, at, direct, ls,
             _emit(ls, event.level, event.message), JUndefined)

\* The entries of the logger calls a step of the library makes, in order,
\* from the k-th on; the step ends at a call an exception leaves.
RECURSIVE LoggedFrom(_, _, _, _)
LoggedFrom(ls, events, k, at) ==
    IF k > Len(events) THEN [entries |-> << >>, thrown |-> FALSE]
    ELSE LET entry == LoggerCall(ls, events[k], at, FALSE)
         IN  IF entry.thrown THEN [entries |-> <<entry>>, thrown |-> TRUE]
             ELSE LET rest == LoggedFrom(ls, events, k + 1, at)
                  IN  [entries |-> <<entry>> \o rest.entries, thrown |-> rest.thrown]

\* Logged without the `if (verbose)`: the logger is called whatever verbose
\* is.
Logged_ignoresVerbose(ls, v, events, at) ==
    LoggedFrom(ls, events, 1, at)

\* `if (verbose) { logger... }`: the logger calls of a step, none when
\* verbose is false.
Logged(ls, v, events, at) ==
    LoggedFrom(ls, IF v THEN events ELSE << >>, 1, at)

\* JSON.stringify of a JSON-like value
RECURSIVE Stringify(_)
Stringify(x) ==
    CASE x.t = "str" -> "\"" \o x.v \o "\""
      [] x.t = "num" -> ToString(x.v)
      [] x.t = "bool" -> IF x.v THEN "true" ELSE "false"
      [] x.t = "arr" ->
            LET RECURSIVE items(_)
                items(k) ==
                    IF k > Len(x.v) THEN ""
                    ELSE (IF k > 1 THEN "," ELSE "")
                         \o (IF x.v[k].t = "undefined" THEN "null"
                             ELSE Stringify(x.v[k]))
                         \o items(k + 1)
            IN  "[" \o items(1) \o "]"
      [] x.t = "obj" ->
            LET RECURSIVE fields(_, _)
                fields(keys, first) ==
                    IF keys = {} THEN ""
                    ELSE LET key == CHOOSE key \in keys : TRUE
                         IN  (IF first THEN "" ELSE ",")
                             \o "\"" \o key \o "\":" \o Stringify(x.v[key])
                             \o fields(keys \ {key}, FALSE)
            IN  "{" \o fields(DOMAIN x.v, TRUE) \o "}"
      [] OTHER -> "null"

-----------------------------------------------------------------------------
(* What the library logs when verbose is set *)

\* `${config.baseUrl}${config.endpoint ? `/${config.endpoint}` : ''}` of
\* translate.ts:119, 331-333, 341-343
ConfigLabel(config) ==
    config.baseUrl
        \o (IF TruthyField(config.endpoint) THEN "/" \o config.endpoint ELSE "")

\* JSON.stringify(preferredConfig) of translate.ts:97: the fields present,
\* in the order baseUrl, endpoint, client, isTranslatePa
StringifyPreferred(p) ==
    IF p.kind # "object" THEN "\"preferred\""
    ELSE LET field(name, value, quoted) ==
                 IF value = Undefined THEN << >>
                 ELSE <<"\"" \o name \o "\":"
                        \o (IF quoted THEN "\"" \o value \o "\"" ELSE value)>>
             present == field("baseUrl", p.baseUrl, TRUE)
                        \o field("endpoint", p.endpoint, TRUE)
                        \o field("client", p.client, TRUE)
                        \o field("isTranslatePa", p.isTranslatePa, FALSE)
             RECURSIVE joined(_)
             joined(k) ==
                 IF k > Len(present) THEN ""
                 ELSE (IF k > 1 THEN "," ELSE "") \o present[k] \o joined(k + 1)
         IN  "{" \o joined(1) \o "}"

\* translate.ts:94-122: the logger calls of the planner
PlannerEvents(preferred, randomize) ==
    IF preferred.kind # "null" /\ ~randomize
    THEN IF ~isValidConfig(preferred)
         THEN <<Event("error", "invalid preferred config: "
                               \o StringifyPreferred(preferred)),
                Event("info", "will use random config order")>>
         ELSE <<Event("info", "using preferred config: " \o ConfigLabel(preferred))>>
    ELSE << >>

\* translate.ts:221-224, 265-274: the logger calls of the executor for what
\* its outbound call resolved to, res being what the attempt produces
ExecutorEvents(config, response, res) ==
    LET data == IF response.kind = "http" /\ response.status = 200
                   /\ response.body.t # "unparseable"
                THEN response.body ELSE JNull
        handling == <<Event("error", "error while handling response data: "
                                     \o res.message),
                      Event("error", "response data: " \o Stringify(data))>>
    IN  IF response.kind = "network_error" \/ res.ok THEN << >>
        ELSE IF response.status # 200
        THEN <<Event("error", "request failed, status: " \o ToString(response.status)
                              \o " host: " \o config.baseUrl)>>
        ELSE IF res.message = MsgNoData /\ response.body.t # "unparseable"
        THEN <<Event("error", MsgNoData)>> \o handling
        ELSE handling

\* translate.ts:329-335
TryingEvent(plan, idx) ==
    Event("info", "trying config " \o ToString(idx + 1) \o "/"
                  \o ToString(Len(plan)) \o ": " \o ConfigLabel(plan[idx + 1]))

\* translate.ts:94-122, 315-321, 329-335: the logger calls of translate up
\* to its first outbound call
StartEvents(t, f, tl, preferred, randomize, plan) ==
    PlannerEvents(preferred, randomize)
        \o <<Event("info", "start translating: " \o f \o " -> " \o tl
                           \o ", text length: " \o ToString(Len(t))),
             Event("info", "generated " \o ToString(Len(plan)) \o " configs")>>
        \o (IF randomize
            THEN <<Event("info", "using fully randomized config order")>>
            ELSE << >>)
        \o <<TryingEvent(plan, 0)>>

\* translate.ts:339-345
SuccessEvent(config) ==
    Event("info", "translate succeeded! using config: " \o ConfigLabel(config))

\* translate.ts:352-354
FailedEvent(idx, errorMsg) ==
    Event("info", "config " \o ToString(idx + 1) \o " failed: " \o errorMsg)

\* An exception that leaves a logger call leaves translate: the calls of
\* translate.ts:298-321 are outside any try, and the handler of line 348
\* logs again at line 353.  The invocation then ends with that exception
\* (pc "aborted") and issues no further call.
EndPc(lg, normally) == IF lg.thrown THEN "aborted" ELSE normally
EndOutcome(lg, normally) ==
    IF lg.thrown THEN ErrorOutcome("listener", MsgListenerError) ELSE normally

-----------------------------------------------------------------------------
(* The request handler: handlers.ts, kept in                                *)
(* src/linux-deploy/INSTALL_GUIDE.md:227-423                                *)

\* A string given by its characters (a token, a header value).
Chars(chars) == JV("chars", chars)

\* Truthiness of a string-or-absent credential.
TruthyChars(x) == x.t = "chars" /\ Len(x.v) > 0

\* 'Bearer ' of INSTALL_GUIDE.md:310
BEARER == <<"B", "e", "a", "r", "e", "r", " ">>

\* s.startsWith(prefix)
StartsWith(s, prefix) ==
    Len(s) >= Len(prefix) /\ SubSeq(s, 1, Len(prefix)) = prefix

\* s.slice(n)
Slice(s, n) == SubSeq(s, n + 1, Len(s))

\* s.trim(), over the white space of the model's strings
RECURSIVE Trim(_)
Trim(s) ==
    IF Len(s) > 0 /\ s[1] = " " THEN Trim(Tail(s))
    ELSE IF Len(s) > 0 /\ s[Len(s)] = " " THEN Trim(SubSeq(s, 1, Len(s) - 1))
    ELSE s

\* RequestParams and RequestHeaders, INSTALL_GUIDE.md:230-240
Params(txt, source_lang, target_lang, token) ==
    [text |-> txt, source_lang |-> source_lang, target_lang |-> target_lang,
     token |-> token]
Headers(upper, lower) == [Authorization |-> upper, authorization |-> lower]

\* INSTALL_GUIDE.md:296, 303, 317
MsgMissingParam(param) == "missing parameter " \o param
MsgTokenFailed == "ACCESS_TOKEN validation failed"

\* INSTALL_GUIDE.md:309-310: the bearer token of the request headers
BearerToken(headers) ==
    LET authHeader ==
            IF TruthyChars(headers.Authorization) THEN headers.Authorization
            ELSE IF TruthyChars(headers.authorization) THEN headers.authorization
            ELSE Chars(<< >>)
    IN  IF StartsWith(authHeader.v, BEARER)
        THEN Chars(Trim(Slice(authHeader.v, 7)))
        ELSE JNull

\* ParseError without the token check of INSTALL_GUIDE.md:307-319.
ParseError_noToken(params, headers, ACCESS_TOKEN) ==
    IF ~TruthyField(params.text) THEN MsgMissingParam("text")
    ELSE IF ~TruthyField(params.target_lang) THEN MsgMissingParam("target_lang")
    ELSE ""

\* INSTALL_GUIDE.md:280-322: the message of the error parseTranslateParams
\* throws, "" when it returns
ParseError(params, headers, ACCESS_TOKEN) ==
    IF ~TruthyField(params.text) THEN MsgMissingParam("text")
    ELSE IF ~TruthyField(params.target_lang) THEN MsgMissingParam("target_lang")
    ELSE IF /\ TruthyChars(ACCESS_TOKEN)
            /\ params.token # ACCESS_TOKEN
            /\ BearerToken(headers) # ACCESS_TOKEN
    THEN MsgTokenFailed
    ELSE ""

\* INSTALL_GUIDE.md:287: params.source_lang || 'auto'
SourceLang(params) ==
    IF TruthyField(params.source_lang) THEN params.source_lang ELSE "auto"

\* TranslateResponse, INSTALL_GUIDE.md:406-421 (id, the time of the
\* response, is left out)
NoResponse ==
    [code |-> 0, data |-> JUndefined, source_lang |-> JUndefined,
     target_lang |-> "", method |-> "", message |-> ""]
SuccessResponse(result) ==
    [code |-> 200, data |-> result.text, source_lang |-> result.sourceLang,
     target_lang |-> result.targetLang, method |-> "Free", message |-> ""]
ErrorResponse(message) ==
    [code |-> 500, data |-> JUndefined, source_lang |-> JUndefined,
     target_lang |-> "", method |-> "", message |-> message]

\* The request being handled: its arguments, whether parseTranslateParams
\* returned, and how the promise of handleTranslateRequest stands ("none"
\* before the call, "pending", "resolved" with response, "rejected").
Handling(state, params, headers, ACCESS_TOKEN, parsed, response) ==
    [state |-> state, params |-> params, headers |-> headers,
     ACCESS_TOKEN |-> ACCESS_TOKEN, parsed |-> parsed, response |-> response]
NoRequest ==
    Handling("none", Params(Undefined, Undefined, Undefined, JUndefined),
             Headers(JUndefined, JUndefined), JUndefined, FALSE, NoResponse)

\* Caught without the try/catch of INSTALL_GUIDE.md:392, 416-422: the error
\* rejects the promise.
Caught_noCatch(h, message) ==
    [h EXCEPT !.state = "rejected"]

\* INSTALL_GUIDE.md:416-422: an error thrown inside the try resolves the
\* promise with the 500 response
Caught(h, message) ==
    [h EXCEPT !.state = "resolved", !.response = ErrorResponse(message)]

-----------------------------------------------------------------------------
(* Inputs of the model *)

Texts == {"Hello", "", Undefined}
Tos == {"zh", "", Undefined}

OtherUrl == GOOGLE_TRANSLATE_BASE_URLS[1]

\* preferredConfig values: absent; valid (single-field host, with and
\* without other fields; ordinary host with each endpoint, with a client,
\* with an unrecognized client, with a contradictory flag); invalid (unknown host, no host, no endpoint,
\* unknown endpoint, a non-object).
ValidPreferred ==
    {Preferred("object", TRANSLATE_PA, Undefined, Undefined, Undefined),
     Preferred("object", TRANSLATE_PA, "t", "gtx", "false"),
     Preferred("object", OtherUrl, "single", Undefined, Undefined),
     Preferred("object", OtherUrl, "t", Undefined, Undefined),
     Preferred("object", OtherUrl, "t", "dict-chrome-ex", "true"),
     Preferred("object", OtherUrl, "single", "webapp", "true")}
InvalidPreferred ==
    {Preferred("object", "example.com", "single", "gtx", "false"),
     Preferred("object", Undefined, "single", Undefined, Undefined),
     Preferred("object", OtherUrl, Undefined, Undefined, Undefined),
     Preferred("object", OtherUrl, "batch", "gtx", Undefined),
     Preferred("string", Undefined, Undefined, Undefined, Undefined)}
PlannerPreferred == {NoPreferred} \cup ValidPreferred \cup InvalidPreferred

\* A TranslateOptions object without its `to`; verbose is absent or false.
Options(f, p, r) ==
    [from |-> f, preferredConfig |-> p, randomizeAll |-> r, verbose |-> FALSE]

\* The options translate is called with in the model: the defaults, a valid
\* and an invalid preference, and randomizeAll with a preference.
TranslateOptions ==
    {Options(Undefined, NoPreferred, FALSE),
     Options("en", Preferred("object", OtherUrl, "t", Undefined, Undefined), FALSE),
     Options(Undefined, Preferred("object", "example.com", "single", "gtx", "false"), FALSE),
     Options("en", Preferred("object", OtherUrl, "t", Undefined, Undefined), TRUE)}

\* A well-formed body of the response format of config's endpoint family.
GoodBody(config) ==
    IF config.isTranslatePa
    THEN JArr(<<JArr(<<JStr("Bonjour")>>), JArr(<<JStr("en")>>)>>)
    ELSE IF config.endpoint = "single"
    THEN JArr(<<JArr(<<JArr(<<JStr("Bon"), JStr("Hel")>>),
                      JArr(<<JStr("jour"), JStr("lo")>>)>>),
               JNull, JStr("en")>>)
    ELSE JArr(<<JStr("Bonjour")>>)

\* The ways an outbound call can end in an attempt-level failure: no answer
\* at all, a non-200 status, a body that is no JSON, an empty array.
FailureResponses ==
    <<NetworkError,
      Response("http", 500, JUndefined),
      Response("http", 200, Unparseable),
      Response("http", 200, JArr(<< >>))>>

\* The endpoints the remote service serves, by request shape and client.
EndpointKeys == <<"pa", "single/gtx", "single/dict-chrome-ex", "t/gtx", "t/dict-chrome-ex">>
EndpointKey(config) ==
    IF config.isTranslatePa THEN "pa" ELSE config.endpoint \o "/" \o config.client

\* The behaviours of the remote service during one invocation: which
\* failure each of its endpoints answers with when it does not answer well.
\* Either all endpoints fail alike, or neighbouring endpoints fail
\* differently.
RemoteBehaviours ==
    {[k \in 1..Len(EndpointKeys) |-> FailureResponses[f]] :
        f \in 1..Len(FailureResponses)}
    \cup
    {[k \in 1..Len(EndpointKeys) |->
        FailureResponses[((k + s) % Len(FailureResponses)) + 1]] :
        s \in 1..Len(FailureResponses)}

\* What the call for config may resolve to under behaviour b: the failure of
\* its endpoint or a well-formed body.
Responses(b, config) ==
    {b[CHOOSE k \in 1..Len(EndpointKeys) : EndpointKeys[k] = EndpointKey(config)],
     Response("http", 200, GoodBody(config))}

\* The data of the direct getValue calls: a nested object, a nested array,
\* null, undefined, an empty array and two primitives.
LookupData ==
    <<JObj([a |-> JObj([b |-> JArr(<<JStr("x"), JNull, JObj([cd |-> JStr("y")])>>)]),
            n |-> JNull,
            e |-> JArr(<< >>),
            s |-> JStr("str")]),
      JArr(<<JArr(<<JStr("p"), JStr("q")>>), JNull, JObj([a |-> JNum(7)])>>),
      JNull,
      JUndefined,
      JArr(<< >>),
      JStr("str"),
      JNum(7)>>

\* A segment of a path: a field name (its characters) or an index.
FieldSeg(chars) == [idx |-> -1, name |-> chars]
IndexSeg(n) == [idx |-> n, name |-> << >>]

\* The segment lists of the paths of the direct getValue calls.
LookupSegments ==
    LET a == FieldSeg(<<"a">>)
        b == FieldSeg(<<"b">>)
        cd == FieldSeg(<<"c", "d">>)
        n == FieldSeg(<<"n">>)
        e == FieldSeg(<<"e">>)
        sf == FieldSeg(<<"s">>)
        x == FieldSeg(<<"x">>)
    IN  << << >>,
           <<a>>, <<a, b>>, <<a, b, IndexSeg(0)>>, <<a, b, IndexSeg(1)>>,
           <<a, b, IndexSeg(2), cd>>, <<a, b, IndexSeg(3)>>, <<a, x>>, <<x>>,
           <<x, a>>, <<n>>, <<n, a>>, <<e, IndexSeg(0)>>, <<sf>>, <<sf, IndexSeg(0)>>,
           <<IndexSeg(0)>>, <<IndexSeg(0), IndexSeg(1)>>, <<IndexSeg(0), IndexSeg(2)>>,
           <<IndexSeg(1), IndexSeg(0)>>, <<IndexSeg(2), a>>, <<IndexSeg(2), a, b>>,
           <<IndexSeg(5)>> >>

\* The ways a segment list is written as a path: a.b[0] ("mixed"), a.b.0
\* ("dots"), ["a"]["b"][0] ("dquote"), ['a']['b'][0] ("squote"), a.b[00]
\* ("padded").
LookupStyles == {"mixed", "dots", "dquote", "squote", "padded"}

RECURSIVE RenderFrom(_, _, _)
RenderFrom(segs, k, style) ==
    IF k > Len(segs) THEN << >>
    ELSE LET seg == segs[k]
             dot == IF k > 1 THEN <<".">> ELSE << >>
             one ==
                IF seg.idx >= 0
                THEN CASE style = "dots"   -> dot \o <<ToString(seg.idx)>>
                       [] style = "padded" -> <<"[", "0", ToString(seg.idx), "]">>
                       [] OTHER            -> <<"[", ToString(seg.idx), "]">>
                ELSE CASE style = "dquote" -> <<"[", "\"">> \o seg.name \o <<"\"", "]">>
                       [] style = "squote" -> <<"[", "'">> \o seg.name \o <<"'", "]">>
                       [] OTHER            -> dot \o seg.name
         IN  one \o RenderFrom(segs, k + 1, style)

\* The path (a sequence of characters) of a segment list in a style.
RenderPath(segs, style) == RenderFrom(segs, 1, style)

\* The defaults of the direct getValue calls: the parameter's own default
\* (utils.ts:74) and a caller's.
LookupDefaults == <<JNull, JStr("dflt")>>

\* The bodies of the responses of the direct executor calls: the formats of
\* the three endpoint families with the detected language present, absent,
\* empty and null, the same with primitives, null and objects where arrays
\* are expected, and bodies that are no non-empty array.
ExecutorBodies ==
    <<JArr(<<JArr(<<JStr("Bonjour")>>), JArr(<<JStr("en")>>)>>),
      JArr(<<JArr(<<JStr("Bonjour")>>)>>),
      JArr(<<JArr(<<JStr("Bonjour")>>), JArr(<<JStr("")>>)>>),
      JArr(<<JArr(<<JStr("Bonjour")>>), JArr(<< >>)>>),
      JArr(<<JArr(<<JStr("Bonjour")>>), JNull>>),
      JArr(<<JArr(<<JStr("Bonjour")>>), JStr("en")>>),
      JArr(<<JArr(<<JArr(<<JStr("Bon"), JStr("Hel")>>),
                    JArr(<<JStr("jour"), JStr("lo")>>)>>), JNull, JStr("en")>>),
      JArr(<<JArr(<<JArr(<<JStr("Bon")>>), JArr(<<JStr("jour")>>)>>)>>),
      JArr(<<JArr(<<JArr(<<JStr("Bon")>>), JNull, JArr(<<JNull>>), JArr(<< >>),
                    JArr(<<JStr("jour")>>)>>), JNull, JStr("")>>),
      JArr(<<JArr(<<JArr(<<JStr("Bon")>>), JStr("jour")>>), JNull, JStr("en")>>),
      JArr(<<JArr(<<JStr("Bonjour"), JStr("en")>>)>>),
      JArr(<<JArr(<<JStr("Bonjour"), JStr("")>>)>>),
      JArr(<<JArr(<<JStr("Bonjour"), JNull>>)>>),
      JArr(<<JArr(<<JStr(""), JStr("en")>>)>>),
      JArr(<<JArr(<<JNull, JStr("en")>>)>>),
      JArr(<<JStr("Bonjour")>>),
      JArr(<<JStr("Bonjour"), JNull, JStr("en")>>),
      JArr(<<JStr("")>>),
      JArr(<<JNull>>),
      JArr(<<JArr(<< >>)>>),
      JArr(<<JNum(7)>>),
      JArr(<<JObj([a |-> JStr("x")])>>),
      JArr(<< >>),
      JObj([error |-> JStr("x")]),
      JStr("Bonjour"),
      JNum(7),
      JNull,
      Unparseable>>

\* What the outbound call of a direct executor call resolves to.
ExecutorResponses ==
    [k \in 1..Len(ExecutorBodies) |-> Response("http", 200, ExecutorBodies[k])]
        \o <<NetworkError, Response("http", 500, JUndefined)>>

-----------------------------------------------------------------------------
(* The state machine *)

Init ==
    /\ ALL_CONFIGS_CACHE = BuildAllConfigs
    /\ pc = "idle"
    /\ text = Undefined
    /\ from = Undefined
    /\ to = Undefined
    /\ preferredConfig = NoPreferred
    /\ randomizeAll = FALSE
    /\ configs = << >>
    /\ i = 0
    /\ errors = << >>
    /\ remote = << >>
    /\ calls = << >>
    /\ outcome = NoOutcome
    /\ suspended = << >>
    /\ lookup = NoLookup
    /\ verbose = FALSE
    /\ listeners = << >>
    /\ log = << >>
    /\ handler = NoRequest

\* A direct call of the exported planner, translate.ts:85-154.
GenerateTranslateConfigs ==
    /\ pc = "idle"
    /\ \E p \in PlannerPreferred, r \in BOOLEAN, v \in BOOLEAN :
        \E d \in Draws(ShuffleLen(ALL_CONFIGS_CACHE, p, r)) :
            LET lg == Logged(listeners, v, PlannerEvents(p, r), Len(calls))
            IN  /\ preferredConfig' = p
                /\ randomizeAll' = r
                /\ verbose' = v
                /\ log' = log \o lg.entries
                /\ configs' = IF lg.thrown THEN << >>
                               ELSE generateTranslateConfigs(ALL_CONFIGS_CACHE, p, r, d)
                /\ ALL_CONFIGS_CACHE' =
                       IF lg.thrown THEN ALL_CONFIGS_CACHE
                       ELSE CacheAfterPlan(ALL_CONFIGS_CACHE, p, r, d)
                /\ pc' = EndPc(lg, "planned")
                /\ outcome' = EndOutcome(lg, outcome)
    /\ UNCHANGED <<handler, suspended, lookup, listeners, text, from, to,
                   i, errors, remote, calls>>

\* translate.ts:287-309: translate called with text t, target language tl
\* and options o, without text or target language: it throws the validation
\* error.
TranslateInvalidCall(t, tl, o) ==
    /\ pc = "idle"
    /\ ValidationError(t, tl) # ""
    /\ LET lg == Logged(listeners, o.verbose,
                        <<Event("error", ValidationError(t, tl))>>, Len(calls))
       IN  /\ log' = log \o lg.entries
           /\ outcome' = EndOutcome(lg, ErrorOutcome("validation",
                                                     ValidationError(t, tl)))
           /\ pc' = EndPc(lg, "rejected")
    /\ text' = t
    /\ from' = DefaultFrom(o.from)
    /\ to' = tl
    /\ preferredConfig' = o.preferredConfig
    /\ randomizeAll' = o.randomizeAll
    /\ verbose' = o.verbose
    /\ UNCHANGED <<suspended, lookup, listeners, ALL_CONFIGS_CACHE, configs, i,
                   errors, remote, calls>>

\* translate.ts:296-309: translate called without text or target language.
TranslateRejected ==
    /\ pc = "idle"
    /\ \E t \in Texts, tl \in Tos, o \in TranslateOptions :
        TranslateInvalidCall(t, tl, o)
    /\ UNCHANGED handler

\* translate.ts:287-337: translate called with text t, target language tl and
\* options o, up to its first suspension: the plan is generated with the
\* random draws d and the call for its first configuration is issued; b is
\* how the remote service behaves during the invocation.
TranslateCall(t, tl, o, d, b) ==
    /\ pc = "idle"
    /\ ValidationError(t, tl) = ""
    /\ LET plan == generateTranslateConfigs(ALL_CONFIGS_CACHE,
                        o.preferredConfig, o.randomizeAll, d)
           lg == Logged(listeners, o.verbose,
                        StartEvents(t, DefaultFrom(o.from), tl, o.preferredConfig,
                                    o.randomizeAll, plan),
                        Len(calls))
       IN  /\ log' = log \o lg.entries
           /\ configs' = IF lg.thrown THEN << >> ELSE plan
           /\ calls' = IF lg.thrown THEN << >> ELSE <<IssueCall(plan, 0)>>
           /\ ALL_CONFIGS_CACHE' =
                  IF lg.thrown THEN ALL_CONFIGS_CACHE
                  ELSE CacheAfterPlan(ALL_CONFIGS_CACHE, o.preferredConfig,
                                      o.randomizeAll, d)
           /\ pc' = EndPc(lg, "awaiting")
           /\ outcome' = EndOutcome(lg, outcome)
    /\ text' = t
    /\ from' = DefaultFrom(o.from)
    /\ to' = tl
    /\ preferredConfig' = o.preferredConfig
    /\ randomizeAll' = o.randomizeAll
    /\ verbose' = o.verbose
    /\ remote' = b
    /\ i' = 0
    /\ errors' = << >>
    /\ UNCHANGED <<suspended, lookup, listeners>>

\* translate called with text and target language.
TranslateStart ==
    /\ pc = "idle"
    /\ \E t \in Texts, tl \in Tos, o \in TranslateOptions :
        /\ ValidationError(t, tl) = ""
        /\ \E d \in Draws(ShuffleLen(ALL_CONFIGS_CACHE, o.preferredConfig,
                                     o.randomizeAll)) :
            \E b \in RemoteBehaviours : TranslateCall(t, tl, o, d, b)
    /\ UNCHANGED handler

\* Resolved leaving the call in flight unresolved.
Resolved_leavesPending(r) == calls

\* The history with the call in flight resolved to response r.
Resolved(r) == [calls EXCEPT ![Len(calls)].response = r]

\* AttemptSucceeds issuing the call of the next configuration before it
\* returns.
AttemptSucceeds_keepsCalling ==
    /\ pc = "awaiting"
    /\ \E r \in Responses(remote, configs[i + 1]) :
        \E res \in {tryTranslateWithConfig(configs[i + 1], from, to, text, r)} :
        LET lg == Logged(listeners, verbose, <<SuccessEvent(configs[i + 1])>>,
                         Len(calls))
        IN  /\ res.ok
            /\ log' = log \o lg.entries
            /\ outcome' = EndOutcome(lg, ResultOutcome(res))
            /\ calls' = IF MoreRemain(configs, i)
                        THEN Append(Resolved(r), IssueCall(configs, i + 1))
                        ELSE Resolved(r)
            /\ pc' = EndPc(lg, "succeeded")
    /\ UNCHANGED <<handler, suspended, lookup, verbose, listeners, ALL_CONFIGS_CACHE, text,
                   from, to, preferredConfig, randomizeAll, configs, i, errors,
                   remote>>

\* translate.ts:337-347: the call in flight resolves and the attempt
\* succeeds; translate returns its result.
AttemptSucceeds ==
    /\ pc = "awaiting"
    /\ \E r \in Responses(remote, configs[i + 1]) :
        \E res \in {tryTranslateWithConfig(configs[i + 1], from, to, text, r)} :
        LET lg == Logged(listeners, verbose, <<SuccessEvent(configs[i + 1])>>,
                         Len(calls))
        IN  /\ res.ok
            /\ log' = log \o lg.entries
            /\ outcome' = EndOutcome(lg, ResultOutcome(res))
            /\ calls' = Resolved(r)
            /\ pc' = EndPc(lg, "succeeded")
    /\ UNCHANGED <<handler, suspended, lookup, verbose, listeners, ALL_CONFIGS_CACHE, text,
                   from, to, preferredConfig, randomizeAll, configs, i, errors,
                   remote>>

\* AttemptFailsNext letting the rejection of fetch escape the loop.
AttemptFailsNext_networkFatal ==
    /\ pc = "awaiting"
    /\ MoreRemain(configs, i)
    /\ \E r \in Responses(remote, configs[i + 1]) :
        \E res \in {tryTranslateWithConfig(configs[i + 1], from, to, text, r)} :
        LET lg == Logged(listeners, verbose,
                         ExecutorEvents(configs[i + 1], r, res)
                            \o <<FailedEvent(i, res.message),
                                 TryingEvent(configs, i + 1)>>,
                         Len(calls))
        IN  /\ ~res.ok
            /\ log' = log \o lg.entries
            /\ IF r.kind = "network_error"
               THEN /\ pc' = "exhausted"
                    /\ outcome' = ErrorOutcome("aggregate", res.message)
                    /\ calls' = Resolved(r)
                    /\ UNCHANGED <<handler, i, errors>>
               ELSE /\ errors' = Append(errors,
                                    MsgAttempt(i, configs[i + 1], res.message))
                    /\ calls' = Append(Resolved(r), IssueCall(configs, i + 1))
                    /\ i' = i + 1
                    /\ UNCHANGED <<handler, pc, outcome>>
    /\ UNCHANGED <<handler, suspended, lookup, verbose, listeners, ALL_CONFIGS_CACHE, text,
                   from, to, preferredConfig, randomizeAll, configs, remote>>

\* translate.ts:348-359, 324-337: the call in flight resolves, the attempt
\* fails and a configuration remains; the failure is recorded and the call
\* for the next configuration is issued.
AttemptFailsNext ==
    /\ pc = "awaiting"
    /\ MoreRemain(configs, i)
    /\ \E r \in Responses(remote, configs[i + 1]) :
        \E res \in {tryTranslateWithConfig(configs[i + 1], from, to, text, r)} :
        LET lg == Logged(listeners, verbose,
                         ExecutorEvents(configs[i + 1], r, res)
                            \o <<FailedEvent(i, res.message),
                                 TryingEvent(configs, i + 1)>>,
                         Len(calls))
        IN  /\ ~res.ok
            /\ errors' = Append(errors, MsgAttempt(i, configs[i + 1], res.message))
            /\ log' = log \o lg.entries
            /\ calls' = IF lg.thrown THEN Resolved(r)
                        ELSE Append(Resolved(r), IssueCall(configs, i + 1))
            /\ i' = IF lg.thrown THEN i ELSE i + 1
            /\ pc' = EndPc(lg, pc)
            /\ outcome' = EndOutcome(lg, outcome)
    /\ UNCHANGED <<handler, suspended, lookup, verbose, listeners, ALL_CONFIGS_CACHE, text,
                   from, to, preferredConfig, randomizeAll, configs, remote>>

\* AttemptFailsLast rethrowing the error of the last attempt.
AttemptFailsLast_rethrow ==
    /\ pc = "awaiting"
    /\ ~MoreRemain(configs, i)
    /\ \E r \in Responses(remote, configs[i + 1]) :
        \E res \in {tryTranslateWithConfig(configs[i + 1], from, to, text, r)} :
        LET lg == Logged(listeners, verbose,
                         ExecutorEvents(configs[i + 1], r, res)
                            \o <<FailedEvent(i, res.message),
                                 Event("error", res.message)>>,
                         Len(calls))
        IN  /\ ~res.ok
            /\ errors' = Append(errors, MsgAttempt(i, configs[i + 1], res.message))
            /\ log' = log \o lg.entries
            /\ outcome' = ErrorOutcome("aggregate", res.message)
            /\ calls' = Resolved(r)
    /\ i' = i + 1
    /\ pc' = "exhausted"
    /\ UNCHANGED <<handler, suspended, lookup, verbose, listeners, ALL_CONFIGS_CACHE, text,
                   from, to, preferredConfig, randomizeAll, configs, remote>>

\* AttemptFailsLast starting the loop over at the first configuration
\* instead of leaving it.
AttemptFailsLast_startsOver ==
    /\ pc = "awaiting"
    /\ ~MoreRemain(configs, i)
    /\ \E r \in Responses(remote, configs[i + 1]) :
        \E res \in {tryTranslateWithConfig(configs[i + 1], from, to, text, r)} :
            /\ ~res.ok
            /\ errors' = Append(errors, MsgAttempt(i, configs[i + 1], res.message))
            /\ calls' = Append(Resolved(r), IssueCall(configs, 0))
    /\ i' = 0
    /\ UNCHANGED <<handler, suspended, lookup, verbose, listeners, log,
                   ALL_CONFIGS_CACHE, pc, text, from, to, preferredConfig,
                   randomizeAll, configs, remote, outcome>>

\* translate.ts:348-370: the call in flight resolves, the attempt fails and
\* it was the last configuration; translate throws the aggregate error.
AttemptFailsLast ==
    /\ pc = "awaiting"
    /\ ~MoreRemain(configs, i)
    /\ \E r \in Responses(remote, configs[i + 1]) :
        \E res \in {tryTranslateWithConfig(configs[i + 1], from, to, text, r)} :
        LET errs == Append(errors, MsgAttempt(i, configs[i + 1], res.message))
            lg == Logged(listeners, verbose,
                         ExecutorEvents(configs[i + 1], r, res)
                            \o <<FailedEvent(i, res.message),
                                 Event("error", MsgFinal(configs, errs))>>,
                         Len(calls))
        IN  /\ ~res.ok
            /\ errors' = errs
            /\ log' = log \o lg.entries
            /\ outcome' = EndOutcome(lg, ErrorOutcome("aggregate",
                                                      MsgFinal(configs, errs)))
            /\ calls' = Resolved(r)
            /\ pc' = EndPc(lg, "exhausted")
    /\ i' = i + 1
    /\ UNCHANGED <<handler, suspended, lookup, verbose, listeners, ALL_CONFIGS_CACHE, text,
                   from, to, preferredConfig, randomizeAll, configs, remote>>

Next ==
    \/ TranslateRejected
    \/ TranslateStart
    \/ AttemptSucceeds
    \/ AttemptFailsNext
    \/ AttemptFailsLast

Spec == Init /\ [][Next]_vars

\* translate.ts:337: the promise of the outbound call in flight settles with
\* one of the responses the remote service can give, and the continuation
\* after the await runs; it may issue the call of the next configuration.
\* Every attempt step is such a step, and while a call is in flight one is
\* possible.
CallResolves ==
    /\ pc = "awaiting"
    /\ \E r \in Responses(remote, configs[i + 1]) :
          \E issued \in {<< >>} \cup (IF MoreRemain(configs, i)
                                      THEN {<<IssueCall(configs, i + 1)>>}
                                      ELSE {}) :
              calls' = Resolved(r) \o issued

\* The same program when every outbound call is eventually resolved, with a
\* response or an error: a call does not stay in flight for ever.
SpecLive ==
    /\ Init
    /\ [][Next]_vars
    /\ WF_calls(CallResolves)

\* The planner called on its own.
NextPlan == GenerateTranslateConfigs

SpecPlan == Init /\ [][NextPlan]_vars

\* A call of the attempt executor on its own, translate.ts:165-278, with
\* what its outbound call resolves to; outcome is what it returns or throws.
TryTranslateWithConfig ==
    /\ pc = "idle"
    /\ \E c \in 1..Len(ALL_CONFIGS_CACHE), sl \in {"auto", "en"},
          r \in 1..Len(ExecutorResponses), v \in BOOLEAN :
        LET config == ALL_CONFIGS_CACHE[c]
            res == tryTranslateWithConfig(config, sl, "zh", "Hello", ExecutorResponses[r])
            lg == Logged(listeners, v,
                         ExecutorEvents(config, ExecutorResponses[r], res), 1)
        IN  /\ configs' = <<config>>
            /\ calls' = <<Call(config, ExecutorResponses[r])>>
            /\ from' = sl
            /\ verbose' = v
            /\ log' = log \o lg.entries
            /\ outcome' = EndOutcome(lg, IF res.ok THEN ResultOutcome(res)
                                         ELSE ErrorOutcome("attempt", res.message))
    /\ to' = "zh"
    /\ text' = "Hello"
    /\ pc' = "executed"
    /\ UNCHANGED <<handler, ALL_CONFIGS_CACHE, preferredConfig, randomizeAll, i, errors,
                   remote, suspended, lookup, listeners>>

\* The attempt executor called on its own.
NextExecutor == TryTranslateWithConfig

SpecExecutor == Init /\ [][NextExecutor]_vars

\* Texts and language codes as sequences of characters: letters, the double
\* quote and the backslash.
RequestChars == {"a", "n", "\"", "\\"}
RECURSIVE CharSeqs(_)
CharSeqs(n) ==
    IF n = 0 THEN {<< >>}
    ELSE CharSeqs(n - 1)
         \cup {Append(t, c) : t \in {u \in CharSeqs(n - 1) : Len(u) = n - 1},
                              c \in RequestChars}
RequestTexts == CharSeqs(MaxTextLen)
RequestLangs == {<<"a", "u", "t", "o">>, <<"e", "n">>, <<"z", "h">>}

\* translate.ts:165-198: the attempt executor called for the single-field
\* configuration, up to its fetch: the call is in flight with the URL and the
\* body built from the text and the two language codes.
FetchSingleField ==
    /\ pc = "idle"
    /\ \E t \in RequestTexts, sl \in RequestLangs, tl \in RequestLangs :
        /\ text' = t
        /\ from' = sl
        /\ to' = tl
        /\ calls' = <<[config |-> PaConfig, response |-> Pending,
                       method |-> "POST", url |-> RequestUrl(PaConfig),
                       body |-> RequestBody(t, sl, tl)]>>
    /\ configs' = <<PaConfig>>
    /\ pc' = "fetching"
    /\ UNCHANGED <<handler, ALL_CONFIGS_CACHE, preferredConfig, randomizeAll, i,
                   errors, remote, suspended, lookup, verbose, listeners, log,
                   outcome>>

\* The requests the attempt executor sends to the single-field host.
NextRequest == FetchSingleField

SpecRequest == Init /\ [][NextRequest]_vars

\* A direct call of the exported value extractor, utils.ts:71-116.
GetValue ==
    /\ pc = "idle"
    /\ \E d \in 1..Len(LookupData), q \in 1..Len(LookupSegments),
          style \in LookupStyles, f \in 1..Len(LookupDefaults) :
        LET path == RenderPath(LookupSegments[q], style)
        IN  lookup' = [called |-> TRUE,
                       data |-> LookupData[d],
                       path |-> path,
                       defaultValue |-> LookupDefaults[f],
                       result |-> getValue(LookupData[d], path, LookupDefaults[f])]
    /\ pc' = "looked_up"
    /\ UNCHANGED <<handler, ALL_CONFIGS_CACHE, text, from, to, preferredConfig, randomizeAll,
                   configs, i, errors, remote, calls, outcome, suspended,
                   verbose, listeners, log>>

\* The value extractor called on its own.
NextGetValue == GetValue

SpecGetValue == Init /\ [][NextGetValue]_vars

-----------------------------------------------------------------------------
(* Concurrent invocations: translate.ts:287-371 called again while an      *)
(* earlier invocation awaits its outbound call (README.md:662-666).  The   *)
(* program runs one continuation at a time; the variables text .. outcome  *)
(* hold the locals of the invocation whose continuation runs, suspended    *)
(* those of the others.                                                    *)

\* The locals of the running invocation, translate.ts:287-313, 324, with the
\* history of its calls and what it gave its caller.
Frame ==
    [pc |-> pc, text |-> text, from |-> from, to |-> to,
     preferredConfig |-> preferredConfig, randomizeAll |-> randomizeAll,
     configs |-> configs, i |-> i, errors |-> errors, remote |-> remote,
     calls |-> calls, outcome |-> outcome, verbose |-> verbose]

\* ErrorsOf for a failure list kept at module level, shared by all
\* invocations.
ErrorsOf_shared(f) == errors

\* translate.ts:313: the failure list the invocation with locals f works on
\* (a constant of its own call).
ErrorsOf(f) == f.errors

\* The options of the concurrent calls: the README's batch example and a
\* call with a preference, so that two invocations have different plans.
ConcurrentOptions ==
    {Options("en", NoPreferred, FALSE),
     Options("en", Preferred("object", OtherUrl, "t", Undefined, Undefined), FALSE)}

\* The remote service during the concurrent calls: every endpoint fails in
\* its own way when it fails.
ConcurrentRemotes ==
    {b \in RemoteBehaviours : b[1] = NetworkError /\ b[2] # NetworkError}

\* README.md:662-666: translate is called again before the running
\* invocation has delivered its outcome to an awaiting caller; the running
\* invocation is suspended at its await and the new one starts with fresh
\* locals.
Spawn ==
    /\ pc # "idle"
    /\ Len(suspended) < MaxInvocations - 1
    /\ suspended' = Append(suspended, Frame)
    /\ pc' = "idle"
    /\ text' = Undefined
    /\ from' = Undefined
    /\ to' = Undefined
    /\ preferredConfig' = NoPreferred
    /\ randomizeAll' = FALSE
    /\ configs' = << >>
    /\ i' = 0
    /\ errors' = << >>
    /\ remote' = << >>
    /\ calls' = << >>
    /\ outcome' = NoOutcome
    /\ verbose' = FALSE
    /\ UNCHANGED <<handler, ALL_CONFIGS_CACHE, lookup, listeners, log>>

\* The new invocation runs up to its first await, translate.ts:287-337.
ConcurrentStart ==
    /\ pc = "idle"
    /\ \E o \in ConcurrentOptions, b \in ConcurrentRemotes :
        \E d \in DrawsWithin(ShuffleLen(ALL_CONFIGS_CACHE, o.preferredConfig,
                                        o.randomizeAll) - 1, 0) :
            TranslateCall("Hello", "zh", o, d, b)
    /\ UNCHANGED handler

\* translate.ts:337: the running invocation stays at its await (or has
\* ended) and the event loop runs the continuation of another one, which
\* finds its own locals as it left them.
Switch ==
    \E k \in 1..Len(suspended) :
        LET f == suspended[k]
        IN  /\ suspended' = [suspended EXCEPT ![k] = Frame]
            /\ pc' = f.pc
            /\ text' = f.text
            /\ from' = f.from
            /\ to' = f.to
            /\ preferredConfig' = f.preferredConfig
            /\ randomizeAll' = f.randomizeAll
            /\ configs' = f.configs
            /\ i' = f.i
            /\ errors' = ErrorsOf(f)
            /\ remote' = f.remote
            /\ calls' = f.calls
            /\ outcome' = f.outcome
            /\ verbose' = f.verbose
            /\ UNCHANGED <<handler, ALL_CONFIGS_CACHE, lookup, listeners, log>>

NextConcurrent ==
    \/ ConcurrentStart
    \/ Spawn
    \/ Switch
    \/ AttemptSucceeds
    \/ AttemptFailsNext
    \/ AttemptFailsLast

SpecConcurrent == Init /\ [][NextConcurrent]_vars

-----------------------------------------------------------------------------
(* The logger used by the program's user: README.md:108-140 *)

\* The values handed to logger.on and logger.off.
Callbacks ==
    <<Callback("logHandler", "returns"),
      Callback("faulty", "throws"),
      Callback("42", "not_a_function")>>

\* The calls of the logger's members the program's user has made.
DirectCalls == Cardinality({k \in 1..Len(log) : log[k].direct})

\* What a call of the logger leaves alone besides listeners and log.
LoggerFrame ==
    UNCHANGED <<handler, ALL_CONFIGS_CACHE, pc, text, from, to, preferredConfig,
                randomizeAll, configs, i, errors, remote, calls, outcome,
                suspended, lookup, verbose>>

\* utils.ts:12-16: logger.on(callback)
On ==
    /\ DirectCalls < MaxLoggerCalls
    /\ \E c \in 1..Len(Callbacks) :
        /\ listeners' = on(listeners, Callbacks[c])
        /\ log' = Append(log, LogEntry("on", Callbacks[c], "", Len(calls), TRUE,
                                       listeners, NotEmitted, JUndefined))
    /\ LoggerFrame

\* A call of a member that the class of utils.ts:5-59 does not define: the
\* call throws a TypeError and the listener list stays as it is.
MissingMember(member, arg) ==
    /\ DirectCalls < MaxLoggerCalls
    /\ listeners' = listeners
    /\ log' = Append(log, LogEntry(member, arg, "", Len(calls), TRUE, listeners,
                                   NotEmitted, JThrow(MsgNotAFunction(member))))
    /\ LoggerFrame

\* README.md:113, translate-service.js:54: logger.off(callback)
Off == \E c \in 1..Len(Callbacks) : MissingMember("off", Callbacks[c])

\* README.md:114: logger.removeAllListeners()
RemoveAllListeners == MissingMember("removeAllListeners", NoCallback)

\* README.md:115: logger.listenerCount()
ListenerCount == MissingMember("listenerCount", NoCallback)

\* utils.ts:40-58: logger.error / warn / info called by the program's user
\* (README.md:118-120)
Log ==
    /\ DirectCalls < MaxLoggerCalls
    /\ \E level \in {"error", "warn", "info"} :
        log' = Append(log, LoggerCall(listeners, Event(level, "a message"),
                                      Len(calls), TRUE))
    /\ listeners' = listeners
    /\ LoggerFrame

NextLogger ==
    \/ On
    \/ Off
    \/ RemoveAllListeners
    \/ ListenerCount
    \/ Log

SpecLogger == Init /\ [][NextLogger]_vars

-----------------------------------------------------------------------------
(* translate with verbose set and listeners registered *)

\* The options of these calls: those of TranslateOptions, with verbose
\* false and true.
VerboseOptions ==
    {[o EXCEPT !.verbose = v] : o \in TranslateOptions, v \in BOOLEAN}

\* README.md:74-95: a listener is registered before translate is called.
OnBeforeTranslate ==
    /\ pc = "idle"
    /\ On

\* translate called without text or target language.
VerboseRejected ==
    /\ pc = "idle"
    /\ \E t \in Texts, tl \in Tos, o \in VerboseOptions :
        TranslateInvalidCall(t, tl, o)
    /\ UNCHANGED handler

\* translate called with text and target language; the shuffle of its plan
\* draws j = i throughout.
VerboseStart ==
    /\ pc = "idle"
    /\ \E o \in VerboseOptions, b \in ConcurrentRemotes :
        \E d \in DrawsWithin(ShuffleLen(ALL_CONFIGS_CACHE, o.preferredConfig,
                                        o.randomizeAll) - 1, 0) :
            TranslateCall("Hello", "zh", o, d, b)
    /\ UNCHANGED handler

NextVerbose ==
    \/ OnBeforeTranslate
    \/ VerboseRejected
    \/ VerboseStart
    \/ AttemptSucceeds
    \/ AttemptFailsNext
    \/ AttemptFailsLast

SpecVerbose == Init /\ [][NextVerbose]_vars

-----------------------------------------------------------------------------
(* The request handler at work *)

\* The access token of the requests, "s3".
SECRET == <<"s", "3">>

\* The arguments of the handled requests: text and target language present,
\* empty and absent; the token parameter absent, right and wrong; each
\* header key absent or carrying the right or a wrong bearer token, the
\* upper-case key also empty, padded with white space or without scheme;
\* the configured access token absent, empty and set.
HandlerParams ==
    {Params(t, sl, tl, token) :
        t \in Texts, sl \in {"en", Undefined}, tl \in Tos,
        token \in {JUndefined, Chars(SECRET), Chars(<<"x">>)}}
HandlerHeaders ==
    {Headers(upper, lower) :
        upper \in {JUndefined, Chars(<< >>), Chars(BEARER \o SECRET),
                   Chars(BEARER \o <<"x">>),
                   Chars(BEARER \o <<" ">> \o SECRET \o <<" ">>), Chars(SECRET)},
        lower \in {JUndefined, Chars(BEARER \o SECRET), Chars(BEARER \o <<"x">>)}}
AccessTokens == {JUndefined, Chars(<< >>), Chars(SECRET)}

\* INSTALL_GUIDE.md:386-404: handleTranslateRequest is called; it resolves
\* with the 500 response when parseTranslateParams throws, and otherwise
\* calls translate and is suspended at the await of line 399.
HandleTranslateRequest ==
    /\ pc = "idle"
    /\ handler.state = "none"
    /\ \E params \in HandlerParams, headers \in HandlerHeaders,
          ACCESS_TOKEN \in AccessTokens, v \in BOOLEAN :
        LET message == ParseError(params, headers, ACCESS_TOKEN)
            h == Handling("pending", params, headers, ACCESS_TOKEN, message = "",
                          NoResponse)
            lg == Logged(listeners, v, <<Event("error", message)>>, Len(calls))
        IN  IF message # ""
            THEN /\ log' = log \o lg.entries
                 /\ handler' = Caught(h, IF lg.thrown THEN MsgListenerError
                                         ELSE message)
                 /\ UNCHANGED <<suspended, lookup, listeners, verbose,
                                ALL_CONFIGS_CACHE, pc, text, from, to,
                                preferredConfig, randomizeAll, configs, i, errors,
                                remote, calls, outcome>>
            ELSE /\ handler' = h
                 /\ \E b \in ConcurrentRemotes :
                     \E d \in DrawsWithin(ShuffleLen(ALL_CONFIGS_CACHE, NoPreferred,
                                                     FALSE) - 1, 0) :
                         TranslateCall(params.text, params.target_lang,
                                       [Options(SourceLang(params), NoPreferred, FALSE)
                                            EXCEPT !.verbose = v],
                                       d, b)

\* INSTALL_GUIDE.md:399-422: translate has returned or thrown; the handler
\* resumes after its await and resolves with the 200 or the 500 response.
HandlerReturns ==
    /\ handler.state = "pending"
    /\ pc \in {"succeeded", "exhausted", "rejected", "aborted"}
    /\ handler' = IF pc = "succeeded"
                  THEN [handler EXCEPT !.state = "resolved",
                                       !.response = SuccessResponse(outcome)]
                  ELSE Caught(handler, outcome.message)
    /\ UNCHANGED <<suspended, lookup, listeners, verbose, log, ALL_CONFIGS_CACHE,
                   pc, text, from, to, preferredConfig, randomizeAll, configs, i,
                   errors, remote, calls, outcome>>

NextHandler ==
    \/ HandleTranslateRequest
    \/ AttemptSucceeds
    \/ AttemptFailsNext
    \/ AttemptFailsLast
    \/ HandlerReturns

SpecHandler == Init /\ [][NextHandler]_vars

-----------------------------------------------------------------------------
(* The catalog over a sequence of calls: translate.ts:20-48, 132-153 *)

\* The caller has the outcome of a planner or translate call and goes on to
\* its next call, which starts with fresh locals; the module-level catalog
\* is what the calls before left.
CallAgain ==
    /\ pc \in {"planned", "succeeded", "exhausted", "rejected", "aborted"}
    /\ pc' = "idle"
    /\ text' = Undefined
    /\ from' = Undefined
    /\ to' = Undefined
    /\ preferredConfig' = NoPreferred
    /\ randomizeAll' = FALSE
    /\ configs' = << >>
    /\ i' = 0
    /\ errors' = << >>
    /\ remote' = << >>
    /\ calls' = << >>
    /\ outcome' = NoOutcome
    /\ verbose' = FALSE
    /\ log' = << >>
    /\ UNCHANGED <<handler, suspended, lookup, listeners, ALL_CONFIGS_CACHE>>

NextCatalog ==
    \/ GenerateTranslateConfigs
    \/ TranslateRejected
    \/ TranslateStart
    \/ AttemptSucceeds
    \/ AttemptFailsNext
    \/ AttemptFailsLast
    \/ CallAgain

SpecCatalog == Init /\ [][NextCatalog]_vars

-----------------------------------------------------------------------------
(* Properties *)

\* What the attempt of a call of the history produced.
AttemptOf(call) ==
    tryTranslateWithConfig(call.config, from, to, text, call.response)

\* A plan has been generated in this state.
HasPlan == pc \in {"planned", "awaiting", "succeeded", "exhausted"}

\* The number of positions of the plan that hold configuration c.
Occurrences(plan, c) == Cardinality({k \in 1..Len(plan) : plan[k] = c})

\* The response is one of the attempt-level failures: a transport error, a
\* status other than 200, a body that is no JSON, a body that is no non-empty
\* array.
IsFailureResponse(r) ==
    \/ r.kind = "network_error"
    \/ r.kind = "http" /\ r.status # 200
    \/ r.kind = "http" /\ r.body.t = "unparseable"
    \/ r.kind = "http" /\ r.body.t = "arr" /\ Len(r.body.v) = 0

\* C1: when translate returns a result, the calls it issued went to the
\* plan's configurations in plan order, every call but the last failed, the
\* last one succeeded and is the one whose normalized result is returned,
\* and no call follows it.
C1_FirstSuccessReturned ==
    pc = "succeeded" =>
        /\ Len(calls) >= 1
        /\ \A k \in 1..Len(calls) : calls[k].config = configs[k]
        /\ \A k \in 1..(Len(calls) - 1) : ~AttemptOf(calls[k]).ok
        /\ AttemptOf(calls[Len(calls)]).ok
        /\ outcome = ResultOutcome(AttemptOf(calls[Len(calls)]))

\* C1 witness: a result returned by the third configuration of the plan
\* while configurations remain untried.
C1_Witness ==
    /\ pc = "succeeded"
    /\ Len(calls) = 3
    /\ Len(configs) > 3

\* C2: every plan is a permutation of the catalog: same length, and every
\* catalog configuration occurs in it exactly once.
C2_PlanIsPermutation ==
    HasPlan =>
        /\ Len(configs) = Len(ALL_CONFIGS_CACHE)
        /\ \A k \in 1..Len(ALL_CONFIGS_CACHE) :
                Occurrences(configs, ALL_CONFIGS_CACHE[k]) = 1

\* C2 witness: a plan for a valid preference of an ordinary host whose
\* remainder is not in catalog order.
C2_Witness ==
    /\ pc = "planned"
    /\ ~randomizeAll
    /\ preferredConfig \in ValidPreferred
    /\ preferredConfig.baseUrl # TRANSLATE_PA
    /\ configs[2] # ALL_CONFIGS_CACHE[1]

\* The text of the aggregate error for the history: the number of planned
\* configurations, then one line per call with its 1-based position, its
\* host and the message of its failure.
RECURSIVE C3_Lines(_)
C3_Lines(k) ==
    IF k > Len(calls) THEN ""
    ELSE (IF k > 1 THEN "\n" ELSE "")
         \o "config" \o ToString(k) \o "(" \o calls[k].config.baseUrl \o "): "
         \o AttemptOf(calls[k]).message
         \o C3_Lines(k + 1)

\* C3: when every planned configuration failed, translate throws the
\* aggregate error whose message carries the number of planned
\* configurations and one entry per failed attempt, in attempt order, with
\* the attempt's 1-based index, host and failure message.
C3_AggregateMessage ==
    pc = "exhausted" =>
        /\ outcome.kind = "aggregate"
        /\ Len(calls) = Len(configs)
        /\ outcome.message =
              "all translate endpoints failed. tried "
              \o ToString(Len(configs)) \o " configs:\n" \o C3_Lines(1)

\* C3 witness: an aggregate error over failures of four different kinds.
C3_Witness ==
    /\ pc = "exhausted"
    /\ Cardinality({AttemptOf(calls[k]).message : k \in 1..Len(calls)}) >= 4

\* C4: a translate call without text or without target language ends in the
\* validation error, with no plan generated and no outbound call issued.
C4_ValidationBeforeCalls ==
    (pc \notin {"idle", "planned"} /\ (~TruthyField(text) \/ ~TruthyField(to))) =>
        /\ pc = "rejected"
        /\ outcome.kind = "validation"
        /\ calls = << >>
        /\ configs = << >>

\* C4 witness: a call with text but an empty target language, rejected,
\* with randomizeAll set.
C4_Witness ==
    /\ pc = "rejected"
    /\ TruthyField(text)
    /\ to = ""
    /\ randomizeAll

\* C5: no configuration receives two calls of one invocation, and when the
\* invocation ends in the aggregate failure every planned configuration has
\* received exactly one.
C5_OneCallPerConfig ==
    /\ \A j, k \in 1..Len(calls) : j # k => calls[j].config # calls[k].config
    /\ pc = "exhausted" =>
          \A k \in 1..Len(configs) :
              Cardinality({j \in 1..Len(calls) : calls[j].config = configs[k]}) = 1

\* C5 witness: the aggregate failure after a call to each configuration.
C5_Witness ==
    /\ pc = "exhausted"
    /\ Len(calls) = Len(ALL_CONFIGS_CACHE)

\* C6: the aggregate error is thrown only when every configuration of the
\* plan has been attempted and has failed.
C6_AggregateOnlyWhenAllFailed ==
    outcome.kind = "aggregate" =>
        /\ \A k \in 1..Len(configs) :
              \E j \in 1..Len(calls) :
                  /\ calls[j].config = configs[k]
                  /\ calls[j].response.kind # "pending"
                  /\ ~AttemptOf(calls[j]).ok
        /\ \A j \in 1..Len(calls) : ~AttemptOf(calls[j]).ok

\* C6 witness: the aggregate error of an invocation whose plan came from an
\* invalid preference.
C6_Witness ==
    /\ outcome.kind = "aggregate"
    /\ preferredConfig.baseUrl = "example.com"
    /\ i = Len(configs)

\* C7: whenever a call resolved to an attempt-level failure of any kind and
\* a later configuration remained in the plan, the call for the next
\* configuration has been issued.
C7_FailuresRecoverable ==
    \A k \in 1..Len(calls) :
        (IsFailureResponse(calls[k].response) /\ k < Len(configs)) =>
            /\ Len(calls) >= k + 1
            /\ calls[k + 1].config = configs[k + 1]

\* C7 witness: an invocation still running after a transport error, a
\* non-200 status, an unparseable body and an empty body.
C7_Witness ==
    /\ pc = "awaiting"
    /\ \E a, b, c, d \in 1..(Len(calls) - 1) :
        /\ calls[a].response.kind = "network_error"
        /\ calls[b].response.kind = "http" /\ calls[b].response.status # 200
        /\ calls[c].response.kind = "http" /\ calls[c].response.status = 200
           /\ calls[c].response.body.t = "unparseable"
        /\ calls[d].response.kind = "http" /\ calls[d].response.status = 200
           /\ calls[d].response.body.t = "arr"

\* C8: translate ends in exactly one of a result, the validation error and
\* the aggregate error, and the aggregate error is never the bare error of
\* one attempt.
C8_OutcomeKinds ==
    /\ pc = "succeeded" <=> outcome.kind = "result"
    /\ pc = "rejected" <=> outcome.kind = "validation"
    /\ pc = "exhausted" <=> outcome.kind = "aggregate"
    /\ pc \in {"idle", "planned", "awaiting"} <=> outcome.kind = "none"
    /\ outcome.kind = "validation" =>
          outcome.message \in {MsgMissing("text"), MsgMissing("to")}
    /\ outcome.kind = "aggregate" =>
          \A k \in 1..Len(calls) : outcome.message # AttemptOf(calls[k]).message

\* C8 witness: the last planned configuration failed with a transport error.
C8_Witness ==
    /\ pc = "exhausted"
    /\ calls[Len(calls)].response.kind = "network_error"

\* C9: with no preferredConfig and randomizeAll false, the plan starts with
\* the single-field configuration.
C9_DefaultStartsWithPa ==
    (HasPlan /\ preferredConfig.kind = "null" /\ ~randomizeAll) =>
        /\ configs[1].baseUrl = TRANSLATE_PA
        /\ configs[1].isTranslatePa
        /\ configs[1].endpoint = Undefined
        /\ configs[1].client = Undefined

\* C9 witness: a default plan whose remainder has been shuffled.
C9_Witness ==
    /\ pc = "planned"
    /\ preferredConfig.kind = "null"
    /\ ~randomizeAll
    /\ configs[2] = ALL_CONFIGS_CACHE[Len(ALL_CONFIGS_CACHE)]

\* A preferredConfig the planner is to accept: an object whose host is a
\* catalog host and that is the single-field host or names a recognized
\* endpoint.
C10_IsValid(p) ==
    /\ p.kind = "object"
    /\ \E k \in 1..Len(ALL_CONFIGS_CACHE) : ALL_CONFIGS_CACHE[k].baseUrl = p.baseUrl
    /\ p.baseUrl = TRANSLATE_PA \/ p.endpoint \in {"single", "t"}

\* C10: with randomizeAll false and a valid preferredConfig, the plan starts
\* with the preferred host and, for an ordinary host, the preferred
\* endpoint; for the single-field host it starts with the single-field
\* configuration.
C10_PreferredFirst ==
    (HasPlan /\ ~randomizeAll /\ C10_IsValid(preferredConfig)) =>
        /\ configs[1].baseUrl = preferredConfig.baseUrl
        /\ preferredConfig.baseUrl # TRANSLATE_PA =>
              /\ configs[1].endpoint = preferredConfig.endpoint
              /\ ~configs[1].isTranslatePa
        /\ preferredConfig.baseUrl = TRANSLATE_PA => configs[1] = PaConfig

\* C10 witness: a plan that starts with the preferred 't' endpoint of an
\* ordinary host.
C10_Witness ==
    /\ pc = "planned"
    /\ ~randomizeAll
    /\ preferredConfig.kind = "object"
    /\ preferredConfig.baseUrl = OtherUrl
    /\ preferredConfig.endpoint = "t"
    /\ configs[1].endpoint = "t"

\* The plans the planner can return for a catalog, a preference and a
\* randomizeAll flag, over the random draws of its shuffle.
PlansOf(cache, p, r) ==
    {generateTranslateConfigs(cache, p, r, d) : d \in Draws(ShuffleLen(cache, p, r))}

\* The plans of a call with randomizeAll = true and no preference.
RandomPlans == PlansOf(BuildAllConfigs, NoPreferred, TRUE)

\* Every invalid preference, with randomizeAll false, yields the plan set of
\* randomizeAll = true, in which neither the single-field configuration nor
\* a configuration of the rejected host is pinned first.
C11_PlanSetsAgree ==
    \A p \in InvalidPreferred :
        /\ PlansOf(BuildAllConfigs, p, FALSE) = RandomPlans
        /\ \E plan \in PlansOf(BuildAllConfigs, p, FALSE) : plan[1] # PaConfig
        /\ \E plan \in PlansOf(BuildAllConfigs, p, FALSE) : plan[1].baseUrl # p.baseUrl

\* C11: a translate call with an invalid preferredConfig and randomizeAll
\* false is not blocked: it issues its calls over a plan that holds every
\* catalog configuration once and is one of the plans of randomizeAll =
\* true, and the planner's plan set for an invalid preference is exactly its
\* plan set for randomizeAll = true.
C11_InvalidPreferredShuffles ==
    (/\ pc \in {"awaiting", "succeeded", "exhausted"}
     /\ ~randomizeAll
     /\ preferredConfig.kind # "null"
     /\ ~C10_IsValid(preferredConfig)) =>
        /\ Len(calls) >= 1
        /\ calls[1].config = configs[1]
        /\ Len(configs) = Len(ALL_CONFIGS_CACHE)
        /\ \A k \in 1..Len(ALL_CONFIGS_CACHE) :
                Occurrences(configs, ALL_CONFIGS_CACHE[k]) = 1
        /\ configs \in RandomPlans
        /\ C11_PlanSetsAgree

\* C11 witness: an invocation with the preference for an unknown host whose
\* plan does not start with the single-field configuration and whose second
\* call is in flight.
C11_Witness ==
    /\ pc = "awaiting"
    /\ ~randomizeAll
    /\ preferredConfig.baseUrl = "example.com"
    /\ configs[1] # PaConfig
    /\ Len(calls) = 2

\* Configuration c is the one a valid preference p asks for.
C12_IsPreferred(c, p) ==
    /\ c.baseUrl = p.baseUrl
    /\ p.baseUrl = TRANSLATE_PA \/ c.endpoint = p.endpoint

\* With randomizeAll = true every preference (absent, valid, invalid) yields
\* the plan set of a call without preference, so any two yield the same,
\* and for a valid preference that set holds a plan that does not start
\* with the preferred configuration.
C12_PlanSetsAgree ==
    /\ \A p \in PlannerPreferred : PlansOf(BuildAllConfigs, p, TRUE) = RandomPlans
    /\ \A p \in ValidPreferred :
            \E plan \in PlansOf(BuildAllConfigs, p, TRUE) : ~C12_IsPreferred(plan[1], p)

\* C12: with randomizeAll = true the plan returned is one of the plans of a
\* call without preference, whatever preferredConfig is, and the plan sets
\* of any two preferences are equal.
C12_RandomizeAllIgnoresPreferred ==
    (pc = "planned" /\ randomizeAll) =>
        /\ configs \in RandomPlans
        /\ C12_PlanSetsAgree

\* C12 witness: a plan for randomizeAll = true and a valid preference that
\* starts with another configuration.
C12_Witness ==
    /\ pc = "planned"
    /\ randomizeAll
    /\ preferredConfig \in ValidPreferred
    /\ ~C12_IsPreferred(configs[1], preferredConfig)

\* The hosts and endpoints a preference may name, beyond the planner's
\* inputs: each catalog host, an unknown host, an empty and an absent one.
C13_Hosts ==
    {SOURCE_BASE_URLS[k] : k \in 1..Len(SOURCE_BASE_URLS)}
        \cup {"example.com", "", Undefined}
C13_Endpoints == {"single", "t", "batch", "", Undefined}
C13_Candidates ==
    {Preferred(kind, h, e, c, Undefined) :
        kind \in {"null", "object", "string"}, h \in C13_Hosts,
        e \in C13_Endpoints, c \in {"gtx", Undefined}}

\* A preference is acceptable: an object whose host is a host of the
\* catalog and that is the single-field host or names the endpoint 'single'
\* or 't'.
C13_Acceptable(p) ==
    /\ p.kind = "object"
    /\ \E k \in 1..Len(ALL_CONFIGS_CACHE) : ALL_CONFIGS_CACHE[k].baseUrl = p.baseUrl
    /\ \/ p.baseUrl = TRANSLATE_PA
       \/ p.endpoint = "single"
       \/ p.endpoint = "t"

\* C13: isValidConfig accepts a preference exactly when its host is a
\* catalog host and it is the single-field host or names a recognized
\* endpoint; the preference of the planner call and every candidate are
\* judged so, and with randomizeAll false a preference that is not
\* acceptable gets a plan of randomizeAll = true.
C13_ValidIffHostAndEndpoint ==
    pc = "planned" =>
        /\ isValidConfig(preferredConfig) <=> C13_Acceptable(preferredConfig)
        /\ \A p \in C13_Candidates : isValidConfig(p) <=> C13_Acceptable(p)
        /\ (~randomizeAll /\ preferredConfig.kind # "null"
                /\ ~C13_Acceptable(preferredConfig)) =>
              configs \in RandomPlans

\* C13 witness: a planner call with a preference that names a catalog host
\* but no endpoint, and is rejected.
C13_Witness ==
    /\ pc = "planned"
    /\ ~randomizeAll
    /\ preferredConfig.kind = "object"
    /\ preferredConfig.baseUrl = OtherUrl
    /\ preferredConfig.endpoint = Undefined
    /\ configs[1] # PaConfig

\* C14: at most one call of the invocation is in flight, it is the last one
\* issued, and every call before it has resolved as a failed attempt.
C14_Sequential ==
    /\ Cardinality({k \in 1..Len(calls) : calls[k].response.kind = "pending"}) <= 1
    /\ \A k \in 1..(Len(calls) - 1) :
          /\ calls[k].response.kind # "pending"
          /\ ~AttemptOf(calls[k]).ok
          /\ calls[k].config = configs[k]
          /\ calls[k + 1].config = configs[k + 1]

\* C14 witness: the third call is in flight after two failures.
C14_Witness ==
    /\ pc = "awaiting"
    /\ Len(calls) = 3
    /\ calls[3].response.kind = "pending"
    /\ calls[1].response.kind # "pending"
    /\ calls[2].response.kind # "pending"

\* What the attempt of a call produced in the invocation with locals f.
C15_AttemptOf(f, call) ==
    tryTranslateWithConfig(call.config, f.from, f.to, f.text, call.response)

\* The entry of the failure list for the k-th call of the invocation with
\* locals f.
C15_Line(f, k) ==
    "config" \o ToString(k) \o "(" \o f.calls[k].config.baseUrl \o "): "
        \o C15_AttemptOf(f, f.calls[k]).message

RECURSIVE C15_Lines(_, _)
C15_Lines(f, k) ==
    IF k > Len(f.calls) THEN ""
    ELSE (IF k > 1 THEN "\n" ELSE "") \o C15_Line(f, k) \o C15_Lines(f, k + 1)

\* The invocation with locals f is where its own plan and the responses to
\* its own calls put it: its calls follow its plan, its failure list has
\* one entry per failed call of its own, in order, and its outcome is the
\* result of its own last call or the aggregate of its own failures.
C15_OnItsOwn(f) ==
    LET failed == {k \in 1..Len(f.calls) :
                      /\ f.calls[k].response.kind # "pending"
                      /\ ~C15_AttemptOf(f, f.calls[k]).ok}
    IN  /\ \A k \in 1..Len(f.calls) : f.calls[k].config = f.configs[k]
        /\ failed = 1..Len(f.errors)
        /\ \A k \in 1..Len(f.errors) : f.errors[k] = C15_Line(f, k)
        /\ f.pc = "awaiting" =>
              /\ Len(f.calls) = Len(f.errors) + 1
              /\ f.calls[Len(f.calls)].response.kind = "pending"
        /\ f.pc = "succeeded" =>
              /\ Len(f.calls) = Len(f.errors) + 1
              /\ f.outcome = ResultOutcome(C15_AttemptOf(f, f.calls[Len(f.calls)]))
        /\ f.pc = "exhausted" =>
              /\ Len(f.errors) = Len(f.configs)
              /\ f.outcome.kind = "aggregate"
              /\ f.outcome.message =
                    "all translate endpoints failed. tried "
                    \o ToString(Len(f.configs)) \o " configs:\n" \o C15_Lines(f, 1)

\* C15: whatever the interleaving of the invocations, each of them, running
\* or suspended, is where its own plan and its own responses put it.
C15_InvocationsIndependent ==
    /\ C15_OnItsOwn(Frame)
    /\ \A k \in 1..Len(suspended) : C15_OnItsOwn(suspended[k])

\* C15 witness: two invocations with different plans have both ended in
\* their aggregate errors, with different failure lists.
C15_Witness ==
    /\ pc = "exhausted"
    /\ Len(suspended) >= 1
    /\ suspended[1].pc = "exhausted"
    /\ suspended[1].configs # configs
    /\ suspended[1].errors # errors

\* The element at 0-based index n of x: has is FALSE when x is no array or
\* has no such element.
ElementOf(x, n) ==
    LET has == x.t = "arr" /\ n < Len(x.v)
    IN  [has |-> has, v |-> IF has THEN x.v[n + 1] ELSE JUndefined]

\* A value is present and non-empty: neither null nor undefined nor "".
NonEmpty(x) == x.t \notin {"null", "undefined"} /\ ~(x.t = "str" /\ x.v = "")

\* The direct executor call went to a configuration of family fam ("pa",
\* "single" or "t") and got a 200 response whose body is a non-empty array.
ExecutedWithArray(fam) ==
    /\ pc = "executed"
    /\ IF fam = "pa" THEN calls[1].config.isTranslatePa
       ELSE ~calls[1].config.isTranslatePa /\ calls[1].config.endpoint = fam
    /\ calls[1].response.kind = "http"
    /\ calls[1].response.status = 200
    /\ calls[1].response.body.t = "arr"
    /\ Len(calls[1].response.body.v) > 0

\* C16: for the single-field configuration and a 200 response whose body is
\* a non-empty array, the executor returns a result whose text is the first
\* element of the body's first element, whose sourceLang is the first
\* element of the body's second element when present and non-empty and the
\* requested source language otherwise, and whose targetLang is the
\* requested target language.
C16_SingleFieldResult ==
    ExecutedWithArray("pa") =>
        LET body == calls[1].response.body
            txt == ElementOf(ElementOf(body, 0).v, 0)
            lang == ElementOf(ElementOf(body, 1).v, 0)
        IN  /\ outcome.kind = "result"
            /\ txt.has => outcome.text = txt.v
            /\ outcome.sourceLang =
                  IF lang.has /\ NonEmpty(lang.v) THEN lang.v ELSE JStr(from)
            /\ outcome.targetLang = to

\* The concatenation of the first sub-elements of the entries of entries,
\* from the k-th entry on (an entry without one adds nothing).
RECURSIVE C17_Concat(_, _)
C17_Concat(entries, k) ==
    IF k > Len(entries) THEN ""
    ELSE LET sub == ElementOf(entries[k], 0)
         IN  (IF sub.has /\ sub.v.t = "str" THEN sub.v.v ELSE "")
             \o C17_Concat(entries, k + 1)

\* C17: for a configuration with endpoint 'single' and a 200 response whose
\* body is a non-empty array, the executor returns a result whose text is
\* the concatenation, in order, of the first sub-element of every entry of
\* the body's first element, and whose sourceLang is the body's third
\* element when present and non-empty and the requested source language
\* otherwise.
C17_SingleEndpointResult ==
    ExecutedWithArray("single") =>
        LET body == calls[1].response.body
            first == ElementOf(body, 0)
            lang == ElementOf(body, 2)
        IN  /\ outcome.kind = "result"
            /\ outcome.text =
                  JStr(IF first.has /\ first.v.t = "arr"
                       THEN C17_Concat(first.v.v, 1) ELSE "")
            /\ outcome.sourceLang =
                  IF lang.has /\ NonEmpty(lang.v) THEN lang.v ELSE JStr(from)

C19_NoDataForNonArray ==
    (/\ pc = "executed"
     /\ calls[1].response.kind = "http"
     /\ calls[1].response.status = 200
     /\ calls[1].response.body.t # "unparseable"
     /\ ~(calls[1].response.body.t = "arr" /\ Len(calls[1].response.body.v) > 0)) =>
        /\ outcome.kind = "attempt"
        /\ outcome.message = "no data returned"

\* C19 witness: a 'single' configuration answered with an object.
C19_Witness ==
    /\ pc = "executed"
    /\ calls[1].config.endpoint = "single"
    /\ calls[1].response.status = 200
    /\ calls[1].response.body.t = "obj"
    /\ outcome.kind = "attempt"
    /\ outcome.message = "no data returned"


\* Where following a segment list from a value ends: at a value ("found"),
\* at a segment that is absent, at a null or undefined container or at an
\* index out of range ("absent"), or inside a primitive ("primitive").
RECURSIVE C20_Follow(_, _, _)
C20_Follow(v, segs, k) ==
    IF k > Len(segs) THEN [kind |-> "found", v |-> v]
    ELSE IF v.t \in {"null", "undefined"} THEN [kind |-> "absent", v |-> JUndefined]
    ELSE IF v.t = "arr"
    THEN IF segs[k].idx >= 0 /\ segs[k].idx < Len(v.v)
         THEN C20_Follow(v.v[segs[k].idx + 1], segs, k + 1)
         ELSE [kind |-> "absent", v |-> JUndefined]
    ELSE IF v.t = "obj"
    THEN LET name == IF segs[k].idx >= 0 THEN ToString(segs[k].idx)
                     ELSE Join(segs[k].name)
         IN  IF name \in DOMAIN v.v
             THEN C20_Follow(v.v[name], segs, k + 1)
             ELSE [kind |-> "absent", v |-> JUndefined]
    ELSE [kind |-> "primitive", v |-> JUndefined]

C21_GetValueNeverThrows ==
    pc = "looked_up" =>
        /\ lookup.result.t # "throw"
        /\ \A q \in 1..Len(LookupSegments), style \in LookupStyles :
              (/\ RenderPath(LookupSegments[q], style) = lookup.path
               /\ C20_Follow(lookup.data, LookupSegments[q], 1).kind = "primitive") =>
                    lookup.result = lookup.defaultValue

\* The entry of the log records a logger.error / warn / info call.
IsEvent(entry) == entry.op \in {"error", "warn", "info"}

\* C22: a listener that throws while handling an event neither aborts nor
\* alters the translate invocation that emitted it: no exception leaves a
\* logger call, the invocation issues its calls in plan order and ends where
\* the responses alone put it (the validation error, the result of the first
\* successful attempt after failures only, or the aggregate of all
\* failures); and every event reaches every listener registered when it is
\* emitted, those after a throwing one included, in registration order.
C22_ListenersIsolated ==
    /\ pc # "aborted"
    /\ outcome.kind # "listener"
    /\ \A k \in 1..Len(log) :
          IsEvent(log[k]) =>
              /\ ~log[k].thrown
              /\ log[k].receivers = log[k].listeners
    /\ \A k \in 1..Len(calls) : calls[k].config = configs[k]
    /\ \A k \in 1..(Len(calls) - 1) :
          calls[k].response.kind # "pending" /\ ~AttemptOf(calls[k]).ok
    /\ pc = "rejected" =>
          /\ calls = << >>
          /\ outcome.kind = "validation"
          /\ outcome.message =
                "missing required parameter: "
                \o (IF ~TruthyField(text) THEN "text" ELSE "to")
    /\ pc = "awaiting" => calls[Len(calls)].response.kind = "pending"
    /\ pc = "succeeded" =>
          /\ AttemptOf(calls[Len(calls)]).ok
          /\ outcome = ResultOutcome(AttemptOf(calls[Len(calls)]))
    /\ pc = "exhausted" =>
          /\ Len(calls) = Len(configs)
          /\ ~AttemptOf(calls[Len(calls)]).ok
          /\ outcome.kind = "aggregate"
          /\ outcome.message =
                "all translate endpoints failed. tried "
                \o ToString(Len(configs)) \o " configs:\n" \o C3_Lines(1)

\* C22 witness: a verbose invocation has returned a result after a failed
\* attempt, and its success event went to a throwing listener and then to
\* a listener registered after it.
C22_Witness ==
    /\ pc = "succeeded"
    /\ verbose
    /\ Len(calls) >= 2
    /\ LET last == log[Len(log)]
       IN  /\ last.op = "info"
           /\ ~last.direct
           /\ \E a, b \in 1..Len(last.receivers) :
                 /\ a < b
                 /\ last.receivers[a].kind = "throws"
                 /\ last.receivers[b].kind = "returns"

\* The listeners registered after the first k calls of the log when on
\* adds a function, off removes the callback it is given and
\* removeAllListeners removes them all.
RECURSIVE C23_Registered(_)
C23_Registered(k) ==
    IF k = 0 THEN << >>
    ELSE LET before == C23_Registered(k - 1)
             entry == log[k]
         IN  CASE entry.op = "on" /\ entry.arg.kind \in {"returns", "throws"} ->
                      Append(before, entry.arg)
               [] entry.op = "off" ->
                      SelectSeq(before, LAMBDA cb : cb # entry.arg)
               [] entry.op = "removeAllListeners" -> << >>
               [] OTHER -> before

\* C23: the registry supports add, remove, clear and count: no call of on,
\* off, removeAllListeners or listenerCount throws, listenerCount returns
\* the number of listeners registered at the time, and an event goes to
\* exactly the listeners registered at the time, so not to a callback
\* removed with off and to none after removeAllListeners.
C23_Registry ==
    \A k \in 1..Len(log) :
        /\ log[k].result.t # "throw"
        /\ log[k].op = "listenerCount" =>
              log[k].result = JNum(Len(C23_Registered(k - 1)))
        /\ IsEvent(log[k]) => log[k].receivers = C23_Registered(k - 1)

\* C24: handleTranslateRequest never rejects: its promise resolves with a
\* response whose code is 200, carrying the text, source language and
\* target language of translate's result, exactly when the parameters were
\* present, parseTranslateParams returned (so the token was accepted) and
\* translate returned a result, and whose code is 500 with an error message
\* in every other case; when the parameters or the token are refused, no
\* outbound call is made.
C24_HandlerNeverRejects ==
    /\ handler.state # "rejected"
    /\ handler.state = "resolved" =>
          LET r == handler.response
              present == /\ TruthyField(handler.params.text)
                         /\ TruthyField(handler.params.target_lang)
          IN  /\ r.code \in {200, 500}
              /\ r.code = 200 <=> (present /\ handler.parsed /\ pc = "succeeded")
              /\ r.code = 200 =>
                    /\ r.data = outcome.text
                    /\ r.source_lang = outcome.sourceLang
                    /\ r.target_lang = handler.params.target_lang
              /\ r.code = 500 => r.message # ""
              /\ ~present => ~handler.parsed
              /\ ~handler.parsed => calls = << >>
              /\ (handler.parsed /\ pc # "succeeded") =>
                    /\ pc = "exhausted"
                    /\ r.message = outcome.message

\* C24 witness: a request with the right token parameter got the 200
\* response after a failed attempt.
C24_Witness ==
    /\ handler.state = "resolved"
    /\ handler.response.code = 200
    /\ handler.ACCESS_TOKEN = Chars(SECRET)
    /\ handler.params.token = Chars(SECRET)
    /\ Len(calls) >= 2
    /\ handler.response.data = outcome.text

\* Header value h carries 'Bearer ' followed by the token, with or without
\* white space around it.
C25_Carries(h, token) ==
    /\ h.t = "chars"
    /\ \E l, r \in {<< >>, <<" ">>} : h.v = BEARER \o l \o token.v \o r

\* C25: when a non-empty ACCESS_TOKEN is configured and neither the token
\* parameter nor the bearer token of a header equals it, the request gets
\* the 500 response and no outbound call is issued for it.
C25_TokenMismatchRefused ==
    (/\ handler.state # "none"
     /\ TruthyChars(handler.ACCESS_TOKEN)
     /\ handler.params.token # handler.ACCESS_TOKEN
     /\ ~C25_Carries(handler.headers.Authorization, handler.ACCESS_TOKEN)
     /\ ~C25_Carries(handler.headers.authorization, handler.ACCESS_TOKEN)) =>
        /\ handler.state = "resolved"
        /\ handler.response.code = 500
        /\ calls = << >>
        /\ pc = "idle"

\* C25 witness: a request with text and target language, a wrong token
\* parameter and a wrong bearer token is refused for its token.
C25_Witness ==
    /\ handler.state = "resolved"
    /\ handler.params.text = "Hello"
    /\ handler.params.target_lang = "zh"
    /\ handler.ACCESS_TOKEN = Chars(SECRET)
    /\ handler.params.token = Chars(<<"x">>)
    /\ handler.headers.authorization = Chars(BEARER \o <<"x">>)
    /\ handler.response.code = 500
    /\ handler.response.message = "ACCESS_TOKEN validation failed"
    /\ calls = << >>

\* C26: when ACCESS_TOKEN is configured and text and target language are
\* present, the request passes token validation whenever the token
\* parameter equals ACCESS_TOKEN or a header supplied under either key,
\* 'authorization' or 'Authorization', is 'Bearer ' followed by
\* ACCESS_TOKEN, whatever the other credentials are.
C26_TokenAccepted ==
    (/\ handler.state # "none"
     /\ TruthyChars(handler.ACCESS_TOKEN)
     /\ TruthyField(handler.params.text)
     /\ TruthyField(handler.params.target_lang)
     /\ \/ handler.params.token = handler.ACCESS_TOKEN
        \/ handler.headers.Authorization = Chars(BEARER \o handler.ACCESS_TOKEN.v)
        \/ handler.headers.authorization = Chars(BEARER \o handler.ACCESS_TOKEN.v)) =>
        handler.parsed

\* The hosts of the modelled build other than the single-field one.
C27_OtherHosts ==
    {GOOGLE_TRANSLATE_BASE_URLS[k] : k \in 1..Len(GOOGLE_TRANSLATE_BASE_URLS)}
        \ {"translate-pa.googleapis.com"}

\* Where a value stands in a list (0 when it is not in it).
C27_IndexIn(arr, x) ==
    IF \E k \in 1..Len(arr) : arr[k] = x
    THEN CHOOSE k \in 1..Len(arr) : arr[k] = x
    ELSE 0

\* The place of an ordinary configuration in the enumeration: host first (in
\* the order of the base URL list), then path-endpoint (single before t),
\* then client (gtx before dict-chrome-ex).
C27_Rank(config) ==
    4 * C27_IndexIn(GOOGLE_TRANSLATE_BASE_URLS, config.baseUrl)
        + 2 * C27_IndexIn(<<"single", "t">>, config.endpoint)
        + C27_IndexIn(<<"gtx", "dict-chrome-ex">>, config.client)

C29_ScenarioB ==
    /\ pc \in {"awaiting", "succeeded", "exhausted"}
    /\ preferredConfig = NoPreferred
    /\ ~randomizeAll
    /\ from = "auto"
    /\ \A k \in 1..Len(calls) :
          LET c == calls[k]
          IN  /\ c.config.isTranslatePa =>
                    c.response \in {Pending, Response("http", 500, JUndefined)}
              /\ (~c.config.isTranslatePa /\ c.config.endpoint = "single") =>
                    c.response \in {Pending,
                                    Response("http", 200, GoodBody(c.config))}

\* C29: in scenario B translate returns a result parsed from a
\* 'single'-endpoint configuration, and exactly one failed attempt is
\* recorded before the success.
C29_ScenarioBSingleAfterOneFailure ==
    (C29_ScenarioB /\ pc # "awaiting") =>
        /\ pc = "succeeded"
        /\ calls[Len(calls)].config.endpoint = "single"
        /\ Len(errors) = 1

\* C29 amended: in scenario B translate returns a result; the first call
\* went to the single-field host and failed, every later failed call went to
\* a 't'-endpoint configuration that the shuffle placed before the first
\* 'single'-endpoint one, and the result is parsed from the first
\* configuration whose call was answered successfully.  That configuration
\* is a 'single'-endpoint one (result source language as detected) unless
\* such a 't'-endpoint configuration answered successfully; the failed
\* attempts recorded are one plus the number of failed 't' calls, so exactly
\* one when the plan's second configuration answers successfully.
C29_ScenarioBAmended ==
    (C29_ScenarioB /\ pc # "awaiting") =>
        LET n == Len(calls)
            firstSingle == CHOOSE k \in 2..Len(configs) :
                              /\ configs[k].endpoint = "single"
                              /\ \A j \in 2..(k - 1) : configs[j].endpoint = "t"
        IN  /\ pc = "succeeded"
            /\ n >= 2
            /\ n <= firstSingle
            /\ Len(errors) = n - 1
            /\ calls[1].config = PaConfig
            /\ \A k \in 2..(n - 1) :
                  /\ calls[k].config.endpoint = "t"
                  /\ ~AttemptOf(calls[k]).ok
            /\ outcome = ResultOutcome(AttemptOf(calls[n]))
            /\ outcome.text = JStr("Bonjour")
            /\ calls[n].config.endpoint = "single" <=> n = firstSingle
            /\ calls[n].config.endpoint = "single" => outcome.sourceLang = JStr("en")
            /\ calls[n].config.endpoint = "t" => outcome.sourceLang = JStr("auto")
            /\ Len(errors) = 1 <=> calls[n].config = configs[2]

\* C29 witness: in scenario B the shuffle placed a 't'-endpoint
\* configuration second, it failed, and the result came from the
\* 'single'-endpoint configuration placed third, after two failed attempts.
C29_Witness ==
    /\ C29_ScenarioB
    /\ pc = "succeeded"
    /\ Len(calls) = 3
    /\ calls[2].config.endpoint = "t"
    /\ calls[3].config.endpoint = "single"
    /\ Len(errors) = 2

\* C30: every translate call generates a plan of 20 configurations: the
\* plan has one entry per catalog entry, the catalog built from the source's
\* base URL list has 20 entries, and in verbose mode the log reports the
\* plan's length and numbers the first attempt 1 of that length.
C30_PlanOfTwenty ==
    pc \in {"awaiting", "succeeded", "exhausted"} =>
        /\ Len(configs) = Len(ALL_CONFIGS_CACHE)
        /\ SourceCatalogLength = 20
        /\ verbose =>
              /\ \E k \in 1..Len(log) :
                    log[k].message
                        = "generated " \o ToString(Len(configs)) \o " configs"
              /\ \E k \in 1..Len(log) :
                    log[k].message
                        = "trying config 1/" \o ToString(Len(configs)) \o ": "
                            \o ConfigLabel(configs[1])

\* C31: when every outbound call is eventually resolved, every translate
\* invocation ends, and it ends with the validation error, with a result or
\* with the aggregate error: it never issues more outbound calls than the
\* catalog has configurations, its attempt index changes only by growing by
\* one when a call has failed, and no step follows an ended invocation.
C31_Terminates ==
    /\ [](Len(calls) <= Len(ALL_CONFIGS_CACHE))
    /\ [](pc \in {"idle", "awaiting", "rejected", "succeeded", "exhausted"})
    /\ [][/\ pc \notin {"rejected", "succeeded", "exhausted"}
          /\ i' \in {i, i + 1}
          /\ i' = i + 1 =>
                /\ pc = "awaiting"
                /\ Len(errors') = Len(errors) + 1
          /\ pc' = "rejected" => pc = "idle" /\ calls' = << >>]_vars
    /\ (pc # "idle") ~> (pc \in {"rejected", "succeeded", "exhausted"})

\* C31 witness: an invocation ended with the aggregate error after one call
\* per catalog configuration.
C31_Witness ==
    /\ pc = "exhausted"
    /\ Len(calls) = Len(ALL_CONFIGS_CACHE)
    /\ i = Len(ALL_CONFIGS_CACHE)
    /\ Len(errors) = Len(ALL_CONFIGS_CACHE)

\* The EndpointConfig invariant of one plan entry: a single-field entry is
\* for the single-field host and has neither path-endpoint nor client; any
\* other entry has an ordinary host of the base URL list, a path-endpoint of
\* 'single' or 't' and a client of 'gtx' or 'dict-chrome-ex'.
C32_EndpointConfig(entry) ==
    IF entry.isTranslatePa = TRUE
    THEN /\ entry.baseUrl = "translate-pa.googleapis.com"
         /\ entry.endpoint = Undefined
         /\ entry.client = Undefined
    ELSE /\ entry.isTranslatePa = FALSE
         /\ entry.baseUrl # "translate-pa.googleapis.com"
         /\ \E k \in 1..Len(SOURCE_BASE_URLS) : SOURCE_BASE_URLS[k] = entry.baseUrl
         /\ entry.endpoint \in {"single", "t"}
         /\ entry.client \in {"gtx", "dict-chrome-ex"}

\* C32: every entry of every plan the planner returns satisfies the
\* EndpointConfig invariant, whatever the preferredConfig was (absent,
\* invalid, with a missing or unrecognized client, with a flag that
\* contradicts its host).
C32_PlanEntriesWellFormed ==
    HasPlan => \A k \in 1..Len(configs) : C32_EndpointConfig(configs[k])

\* C32 witness: a plan returned for a valid preferredConfig that names an
\* unrecognized client and carries isTranslatePa true for an ordinary host;
\* the pinned first entry is for that host.
C32_Witness ==
    /\ pc = "planned"
    /\ ~randomizeAll
    /\ preferredConfig.kind = "object"
    /\ preferredConfig.baseUrl # "translate-pa.googleapis.com"
    /\ preferredConfig.client = "webapp"
    /\ preferredConfig.isTranslatePa = "true"
    /\ configs[1].baseUrl = preferredConfig.baseUrl
    /\ configs[1].endpoint = preferredConfig.endpoint

\* C33: with randomizeAll false and a valid preferredConfig for an ordinary
\* host that names a recognized client, the first entry of the plan carries
\* that client.
C33_PreferredClientFirst ==
    (/\ HasPlan
     /\ ~randomizeAll
     /\ C10_IsValid(preferredConfig)
     /\ preferredConfig.baseUrl # "translate-pa.googleapis.com"
     /\ preferredConfig.client \in {"gtx", "dict-chrome-ex"})
        => configs[1].client = preferredConfig.client

\* Every outcome of the Math.random() calls of one shuffle of an array of
\* length n: at each index i any j of 0..i.
C34_AllDraws(n) == DrawsWithin(n - 1, n - 1)

\* Every ordering of the elements of the array arr.
C34_Orderings(arr) ==
    {[k \in 1..Len(arr) |-> arr[f[k]]] : f \in Permutations(1..Len(arr))}

\* The catalog, cut to its first MaxOrdered entries when it has more.
C34_Catalog ==
    SubSeq(BuildAllConfigs, 1,
           IF Len(BuildAllConfigs) < MaxOrdered THEN Len(BuildAllConfigs)
                                                ELSE MaxOrdered)

\* The plans the planner returns over that catalog for preference p and flag
\* r, over every outcome of the random draws.
C34_Plans(p, r) ==
    {generateTranslateConfigs(C34_Catalog, p, r, d) :
        d \in C34_AllDraws(ShuffleLen(C34_Catalog, p, r))}

\* With randomizeAll false, absent or valid preference: the plans are the
\* pinned entry followed by each ordering of the other catalog entries.
\* With randomizeAll true: the plans are the orderings of the catalog.
C34_AllOrderingsPossible ==
    /\ \A p \in {NoPreferred} \cup ValidPreferred :
            C34_Plans(p, FALSE) =
                {PlacedFirst(p, FALSE) \o o :
                    o \in C34_Orderings(OtherConfigs(C34_Catalog,
                                                    PlacedFirst(p, FALSE)))}
    /\ C34_Plans(NoPreferred, TRUE) = C34_Orderings(C34_Catalog)

\* C34: the entries after the pinned first entry are shuffled in the default
\* and in the valid-preference branch: a returned plan is the pinned entry
\* followed by the other catalog entries in some order, and over the random
\* draws every such order is returned; with randomizeAll true every ordering
\* of the whole catalog is returned.
C34_RemainderShuffled ==
    pc = "planned" =>
        /\ \A k \in 1..Len(ALL_CONFIGS_CACHE) :
                Occurrences(configs, ALL_CONFIGS_CACHE[k]) = 1
        /\ (~randomizeAll /\ (preferredConfig.kind = "null"
                                \/ C10_IsValid(preferredConfig))) =>
                /\ preferredConfig.kind = "null" => configs[1] = PaConfig
                /\ preferredConfig.kind # "null" =>
                        configs[1].baseUrl = preferredConfig.baseUrl
        /\ C34_AllOrderingsPossible

\* C34 witness: a plan for a valid preference of an ordinary host whose
\* entries after the pinned one are not in catalog order.
C34_Witness ==
    /\ pc = "planned"
    /\ ~randomizeAll
    /\ C10_IsValid(preferredConfig)
    /\ preferredConfig.baseUrl # "translate-pa.googleapis.com"
    /\ configs[1].baseUrl = preferredConfig.baseUrl
    /\ SubSeq(configs, 2, Len(configs))
            # OtherConfigs(ALL_CONFIGS_CACHE, <<configs[1]>>)

\* C35: every result the executor returns for a 200 response whose body is a
\* non-empty array has a string text and a string sourceLang, for each of
\* the three configuration families.
C35_ResultFieldsAreStrings ==
    (/\ pc = "executed"
     /\ calls[1].response.kind = "http"
     /\ calls[1].response.status = 200
     /\ calls[1].response.body.t = "arr"
     /\ Len(calls[1].response.body.v) > 0
     /\ outcome.kind = "result")
        => /\ outcome.text.t = "str"
           /\ outcome.sourceLang.t = "str"

\* Decoding of a JSON text given as a sequence of characters, for the
\* values a request body is made of: arrays, strings with their escapes and
\* the literal null (the characters of the modelled texts hold no digit and
\* no brace).  A decoding step yields the value and the position after it.
C36_Fail == [ok |-> FALSE, v |-> << >>, next |-> 0]
C36_Done(v, next) == [ok |-> TRUE, v |-> v, next |-> next]
C36_Str(chars) == [t |-> "str", v |-> chars]
C36_Arr(elements) == [t |-> "arr", v |-> elements]

RECURSIVE C36_SkipWs(_, _)
C36_SkipWs(s, p) ==
    IF p <= Len(s) /\ s[p] \in {" ", "\t", "\n", "\r"}
    THEN C36_SkipWs(s, p + 1)
    ELSE p

\* The character an escape stands for: \" \\ \/ stand for themselves.
C36_Unescaped(c) ==
    IF c = "n" THEN "\n" ELSE IF c = "t" THEN "\t" ELSE IF c = "r" THEN "\r"
    ELSE IF c = "f" THEN "\f" ELSE IF c = "b" THEN "<backspace>" ELSE c

\* The rest of a string whose opening quote has been read.
RECURSIVE C36_StringFrom(_, _, _)
C36_StringFrom(s, q, acc) ==
    IF q > Len(s) THEN C36_Fail
    ELSE IF s[q] = "\"" THEN C36_Done(C36_Str(acc), q + 1)
    ELSE IF s[q] \in {"\t", "\n", "\r", "\f"} THEN C36_Fail
    ELSE IF s[q] # "\\" THEN C36_StringFrom(s, q + 1, Append(acc, s[q]))
    ELSE IF q + 1 > Len(s) THEN C36_Fail
    ELSE IF s[q + 1] \in {"\"", "\\", "/", "b", "f", "n", "r", "t"}
    THEN C36_StringFrom(s, q + 2, Append(acc, C36_Unescaped(s[q + 1])))
    ELSE C36_Fail

RECURSIVE C36_Value(_, _)
RECURSIVE C36_Elements(_, _, _)
C36_Value(s, p0) ==
    LET p == C36_SkipWs(s, p0)
    IN  IF p > Len(s) THEN C36_Fail
        ELSE IF s[p] = "\"" THEN C36_StringFrom(s, p + 1, << >>)
        ELSE IF s[p] = "["
        THEN LET q == C36_SkipWs(s, p + 1)
             IN  IF q <= Len(s) /\ s[q] = "]"
                 THEN C36_Done(C36_Arr(<< >>), q + 1)
                 ELSE C36_Elements(s, q, << >>)
        ELSE IF p + 3 <= Len(s) /\ SubSeq(s, p, p + 3) = <<"n", "u", "l", "l">>
        THEN C36_Done([t |-> "null", v |-> << >>], p + 4)
        ELSE C36_Fail

\* The elements of an array from position p on, acc holding those read.
C36_Elements(s, p, acc) ==
    LET e == C36_Value(s, p)
        q == C36_SkipWs(s, e.next)
    IN  IF ~e.ok \/ q > Len(s) THEN C36_Fail
        ELSE IF s[q] = "," THEN C36_Elements(s, q + 1, Append(acc, e.v))
        ELSE IF s[q] = "]" THEN C36_Done(C36_Arr(Append(acc, e.v)), q + 1)
        ELSE C36_Fail

\* The value a JSON text decodes to, or Unparseable.
C36_Decode(s) ==
    LET e == C36_Value(s, 1)
    IN  IF e.ok /\ C36_SkipWs(s, e.next) = Len(s) + 1 THEN e.v ELSE Unparseable

\* [[[text], sourceLang, targetLang], "wt_lib"]
C36_Structure(txt, sourceLang, targetLang) ==
    C36_Arr(<<C36_Arr(<<C36_Arr(<<C36_Str(txt)>>),
                        C36_Str(sourceLang), C36_Str(targetLang)>>),
              C36_Str(<<"w", "t", "_", "l", "i", "b">>)>>)

\* C36: the body of the request sent to the single-field host decodes to
\* [[[text], sourceLang, targetLang], "wt_lib"] with the text and the two
\* language codes the executor was given, for texts with double quotes and
\* backslashes too.
C36_BodyDecodesToInputs ==
    pc = "fetching" =>
        C36_Decode(calls[1].body) = C36_Structure(text, from, to)

\* The same for the texts that hold neither a double quote nor a backslash.
C36_PlainTextDecodesToInput ==
    (pc = "fetching" /\ \A k \in 1..Len(text) : text[k] \notin {"\"", "\\"}) =>
        C36_Decode(calls[1].body) = C36_Structure(text, from, to)

\* The language the body of a response reports as detected, where the format
\* of the configuration's family has one: second element's first element
\* (single-field), third element ('single'), second element of the first
\* element ('t').
C37_Detected(config, body) ==
    LET at == IF config.isTranslatePa THEN ElementOf(ElementOf(body, 1).v, 0)
              ELSE IF config.endpoint = "single" THEN ElementOf(body, 2)
              ELSE ElementOf(ElementOf(body, 0).v, 1)
    IN  IF at.has THEN {at.v} ELSE {}

\* C37: a result returned by translate has the requested target language as
\* its targetLang, whatever the response held, and as its sourceLang the
\* language the response reports or the requested source language ('auto'
\* when none was requested).
C37_LanguagesOfResult ==
    pc = "succeeded" =>
        /\ outcome.kind = "result"
        /\ outcome.targetLang = to
        /\ from \in {"auto", "en"}
        /\ outcome.sourceLang \in
                {JStr(from)} \cup C37_Detected(calls[Len(calls)].config,
                                              calls[Len(calls)].response.body)

\* C37 witness: a result for target 'zh' whose response reported the
\* language 'en' while no source language was requested.
C37_Witness ==
    /\ pc = "succeeded"
    /\ from = "auto"
    /\ to = "zh"
    /\ outcome.targetLang = "zh"
    /\ outcome.sourceLang = JStr("en")
    /\ JStr("en") \in C37_Detected(calls[Len(calls)].config,
                                   calls[Len(calls)].response.body)

\* C37 second case: a result whose response reported no language, with the
\* source language 'auto' of a call that requested none.
C37_WitnessAuto ==
    /\ pc = "succeeded"
    /\ from = "auto"
    /\ outcome.sourceLang = JStr("auto")
    /\ outcome.targetLang = to

\* The message of the event that reports the end of the k-th attempt: the
\* success event when the call's response gives a result, the failure event
\* with the attempt's error otherwise.
C38_EndMessage(k) ==
    LET res == tryTranslateWithConfig(calls[k].config, from, to, text,
                                      calls[k].response)
    IN  IF res.ok
        THEN "translate succeeded! using config: " \o ConfigLabel(calls[k].config)
        ELSE "config " \o ToString(k) \o " failed: " \o res.message

\* The message of the event that announces the k-th attempt.
C38_TryingMessage(k) ==
    "trying config " \o ToString(k) \o "/" \o ToString(Len(configs)) \o ": "
        \o ConfigLabel(configs[k])

\* C38: with verbose false the library makes no logger call, so no listener
\* receives an event, whether the invocation ends with the validation error,
\* with a result after any number of failed attempts or with the aggregate
\* error.  With verbose true the 'trying config k' event of each attempt is
\* dispatched to the listeners before the attempt's call is issued, and the
\* attempt's success or failure event after the call, later in the history.
C38_VerboseGatesEvents ==
    /\ ~verbose => \A a \in 1..Len(log) : IsEvent(log[a]) => log[a].direct
    /\ (verbose /\ pc \in {"awaiting", "succeeded", "exhausted"}) =>
          \A k \in 1..Len(calls) :
              \E a \in 1..Len(log) :
                  /\ IsEvent(log[a])
                  /\ ~log[a].direct
                  /\ log[a].message = C38_TryingMessage(k)
                  /\ log[a].at = k - 1
                  /\ log[a].receivers = listeners
                  /\ calls[k].response # Pending =>
                        \E b \in (a + 1)..Len(log) :
                            /\ IsEvent(log[b])
                            /\ ~log[b].direct
                            /\ log[b].message = C38_EndMessage(k)
                            /\ log[b].at >= k
                            /\ log[b].receivers = listeners

\* C38 witness: with a listener registered and verbose false, an invocation
\* ended with a result after a failed attempt and the history holds no
\* event.
C38_Witness ==
    /\ ~verbose
    /\ pc = "succeeded"
    /\ Len(listeners) > 0
    /\ Len(errors) >= 1
    /\ \A a \in 1..Len(log) : ~IsEvent(log[a])

\* C38 second case: with a listener registered and verbose true, the second
\* attempt succeeded after the first failed.
C38_WitnessVerbose ==
    /\ verbose
    /\ pc = "succeeded"
    /\ Len(listeners) > 0
    /\ Len(calls) = 2
    /\ \E a \in 1..Len(log) : log[a].message = C38_TryingMessage(2) /\ log[a].at = 1

====
